---- MODULE Spec2Model ----
(***************************************************************************)
(* Conversation memory (ConversationMemory) and interview orchestrator     *)
(* (MainOrchestrator) of the system-design interviewer coach backend.      *)
(*                                                                         *)
(* Python values are modelled as follows:                                  *)
(*   dict            a function; {} is the empty function << >>            *)
(*   list            a sequence                                            *)
(*   Optional[T]     a sequence of length <= 1: None is << >>, v is <<v>>  *)
(*   topic label     a sequence of one-character strings                   *)
(*   datetime        a natural number of hours (the clock `now`)           *)
(***************************************************************************)
EXTENDS Integers, Sequences, FiniteSets, Bags, TLC

VARIABLES
    sessions,                      \* ConversationMemory.sessions
    performance_cache,             \* ConversationMemory.performance_cache
    max_interactions_per_session,  \* ConversationMemory.max_interactions_per_session
    max_memory_hours,              \* ConversationMemory.max_memory_hours
    now,                           \* datetime.utcnow(), in hours
    ret,                           \* outcome of the last ConversationMemory call by an outside caller
    current_sessions,              \* MainOrchestrator.current_sessions
    tasks,                         \* orchestrator coroutines suspended at an await
    resp,                          \* outcome of the last orchestrator call that returned
    adjustment,                    \* the call of DifficultyAdaptorAgent.should_adjust_difficulty
    assessment,                    \* the last call of the question generator's assess_difficulty tool
    workflow,                      \* the run of FeedbackProviderAgent.workflow
    session_repository,            \* InMemorySessionRepository: _sessions and _user_sessions
    svc                            \* outcome of the last call on the SessionService or on a stored InterviewSession

vars == <<sessions, performance_cache, max_interactions_per_session,
          max_memory_hours, now, ret, current_sessions, tasks, resp,
          adjustment, assessment, workflow, session_repository, svc>>

memVars == <<sessions, performance_cache, max_interactions_per_session,
             max_memory_hours, now, ret>>

orchVars == <<current_sessions, tasks, resp>>

\* the agents and services that keep no state in the orchestrator or its memory
unitVars == <<adjustment, assessment, workflow, session_repository, svc>>

(***************************************************************************)
(* Bounds of the model                                                     *)
(***************************************************************************)
\* largest max_interactions_per_session a ConversationMemory is built with
MaxCap == 4
\* add_interaction is not called while the store holds MaxHeld interactions
MaxHeld == 4
\* nor with an evaluation once the session has MaxSamples performance samples
MaxSamples == 3
\* where the read operations are exercised, add_interaction is not called
\* while the store holds MaxReadHeld interactions
MaxReadHeld == 3
\* orchestrator coroutines that can be in flight at once
MaxTasks == 2
\* process_user_answer is not called on a session that was asked MaxQuestions
\* questions
MaxQuestions == 2
\* where the orchestrator runs too, add_interaction is not called while the
\* store holds MaxOwnHeld interactions
MaxOwnHeld == 2

Ids == {"s1", "s2"}

\* ConversationMemory.__init__ defaults
DefaultMemoryHours == 24

DefaultMaxInteractions == 100

\* thresholds of MainOrchestrator's session insights
ReadyAfterQuestions == 3

WrapUpAfterQuestions == 8

MinTopicsCovered == 3

(***************************************************************************)
(* Python helpers                                                          *)
(***************************************************************************)
None == << >>

Some(v) == <<v>>

EmptyDict == << >>

\* `if x:` on an Optional[str]
TruthyStr(opt) == opt # None /\ opt[1] # ""

\* `if x:` on an Optional[dict] or Optional[list]
Truthy(opt) == opt # None /\ opt[1] # << >>

\* datetime.isoformat()
isoformat(t) == [iso |-> t]

\* a DifficultyLevel member, and a plain str (which has no .value)
DifficultyLevel(v) == [value |-> v]

PlainStr(v) == [str |-> v]

HasValueAttr(x) == "value" \in DOMAIN x

Range(s) == {s[i] : i \in DOMAIN s}

Min(a, b) == IF a < b THEN a ELSE b

Max(a, b) == IF a > b THEN a ELSE b

\* lst[-k:] for k >= 0.  Python evaluates -0 as 0, so lst[-0:] is lst[0:].
SliceLast(lst, k) ==
    IF k = 0 THEN lst
    ELSE SubSeq(lst, Max(1, Len(lst) - k + 1), Len(lst))

\* lst[:-k] for k >= 0.  lst[:-0] is lst[:0], the empty list.
SliceDropLast(lst, k) ==
    IF k = 0 THEN << >>
    ELSE SubSeq(lst, 1, Max(0, Len(lst) - k))

\* d[k] = v on a dict
DictSet(d, k, v) == [x \in DOMAIN d \cup {k} |-> IF x = k THEN v ELSE d[x]]

\* del d[k]
DictDel(d, k) == [x \in DOMAIN d \ {k} |-> d[x]]

(***************************************************************************)
(* ConversationMemory: data                                                *)
(***************************************************************************)
InteractionMemory(timestamp, question, answer, evaluation, feedback, context, question_type, topics_covered) ==
    [timestamp      |-> timestamp,
     question       |-> question,
     answer         |-> answer,
     evaluation     |-> evaluation,
     feedback       |-> feedback,
     context        |-> context,
     question_type  |-> question_type,
     topics_covered |-> IF topics_covered = None THEN << >> ELSE topics_covered[1]]

SessionMemory(session_id, topic, difficulty, start_time, interactions) ==
    [session_id         |-> session_id,
     topic              |-> topic,
     difficulty         |-> difficulty,
     start_time         |-> start_time,
     interactions       |-> interactions,
     current_question   |-> None,
     covered_topics     |-> << >>,
     performance_trends |-> << >>,
     context_summary    |-> EmptyDict]

\* outcome of a ConversationMemory call: the exception raised, or the value returned
Returned(op, id, value) == [op |-> op, id |-> id, raised |-> "", value |-> value]

Raised(op, id, exc) == [op |-> op, id |-> id, raised |-> exc, value |-> None]

NoCall == [op |-> "", id |-> "", raised |-> "", value |-> None]

\* no call of should_adjust_difficulty was made
NoAdjustment == [pc |-> "idle"]

\* no call of the assess_difficulty tool was made
NoAssessment == [called |-> FALSE]

\* InMemorySessionRepository.__init__
EmptyRepository == [_sessions |-> EmptyDict, _user_sessions |-> EmptyDict]

\* no call on the SessionService was made
NoServiceCall == [op |-> "", args |-> << >>, raised |-> ""]

\* generate_comprehensive_feedback was not called
NoWorkflow == [node |-> "idle", state |-> EmptyDict, path |-> << >>]

UnitsInit ==
    /\ adjustment = NoAdjustment
    /\ assessment = NoAssessment
    /\ workflow = NoWorkflow
    /\ session_repository = EmptyRepository
    /\ svc = NoServiceCall

(***************************************************************************)
(* ConversationMemory.initialize_session                                   *)
(***************************************************************************)
initialize_session_store(store, session_id, topic, difficulty, utcnow) ==
    DictSet(store, session_id,
            SessionMemory(session_id, topic, difficulty, utcnow, << >>))

(***************************************************************************)
(* ConversationMemory._summarize_interactions                              *)
(***************************************************************************)
RECURSIVE FlattenTopics(_)
FlattenTopics(interactions) ==
    IF interactions = << >> THEN << >>
    ELSE Head(interactions).topics_covered \o FlattenTopics(Tail(interactions))

_summarize_interactions(interactions) ==
    IF interactions = << >> THEN EmptyDict
    ELSE [summarized_interactions |-> Len(interactions),
          time_period      |-> [start |-> isoformat(interactions[1].timestamp),
                                end   |-> isoformat(
                                              interactions[Len(interactions)].timestamp)],
          topics_discussed |-> Range(FlattenTopics(interactions)),
          question_types   |-> {interactions[i].question_type :
                                   i \in {j \in DOMAIN interactions :
                                            interactions[j].question_type # ""}},
          evaluation_count |-> Cardinality({i \in DOMAIN interactions :
                                              Truthy(interactions[i].evaluation)})]

(***************************************************************************)
(* ConversationMemory._manage_memory_size                                  *)
(***************************************************************************)
KeepCount(max_interactions) == max_interactions \div 2

_manage_memory_size_Cumulative(session_memory, max_interactions) ==
    IF Len(session_memory.interactions) > max_interactions
    THEN LET summary == _summarize_interactions(
                            SliceDropLast(session_memory.interactions,
                                          KeepCount(max_interactions)))
             earlier == session_memory.context_summary
         IN  [session_memory EXCEPT
                !.context_summary =
                    IF summary # EmptyDict /\ earlier # EmptyDict
                    THEN [summary EXCEPT !.summarized_interactions =
                             @ + earlier.summarized_interactions]
                    ELSE summary,
                !.interactions =
                    SliceLast(session_memory.interactions,
                              KeepCount(max_interactions))]
    ELSE session_memory

_manage_memory_size(session_memory, max_interactions) ==
    IF Len(session_memory.interactions) > max_interactions
    THEN [session_memory EXCEPT
            !.context_summary =
                _summarize_interactions(
                    SliceDropLast(session_memory.interactions,
                                  KeepCount(max_interactions))),
            !.interactions =
                SliceLast(session_memory.interactions, KeepCount(max_interactions))]
    ELSE session_memory

(***************************************************************************)
(* ConversationMemory.add_interaction                                      *)
(***************************************************************************)
UpdateCurrentQuestion_Always(current_question, question) == question

UpdateCurrentQuestion(current_question, question) ==
    IF TruthyStr(question) THEN question ELSE current_question

\* covered_topics.extend(expected_topics): the membership test left out
UpdateCoveredTopics_NoMembershipTest(covered_topics, expected_topics) ==
    IF Truthy(expected_topics)
    THEN covered_topics \o expected_topics[1]
    ELSE covered_topics

RECURSIVE AppendNewTopics(_, _)
AppendNewTopics(covered_topics, topics) ==
    IF topics = << >> THEN covered_topics
    ELSE AppendNewTopics(
            IF Head(topics) \in Range(covered_topics)
            THEN covered_topics
            ELSE Append(covered_topics, Head(topics)),
            Tail(topics))

UpdateCoveredTopics(covered_topics, expected_topics) ==
    IF Truthy(expected_topics)
    THEN AppendNewTopics(covered_topics, expected_topics[1])
    ELSE covered_topics

\* self.performance_cache is a defaultdict(list)
UpdatePerformanceCache(cache, session_id, interaction) ==
    IF Truthy(interaction.evaluation)
    THEN DictSet(cache, session_id,
                 Append(IF session_id \in DOMAIN cache THEN cache[session_id]
                        ELSE << >>,
                        [timestamp     |-> interaction.timestamp,
                         evaluation    |-> interaction.evaluation[1],
                         question_type |-> interaction.question_type]))
    ELSE cache

AddToSession(session_memory, interaction, question, expected_topics) ==
    [session_memory EXCEPT
        !.interactions     = Append(@, interaction),
        !.current_question = UpdateCurrentQuestion(@, question),
        !.covered_topics   = UpdateCoveredTopics(@, expected_topics)]

\* what add_interaction hands to its caller: ValueError for an unknown session
add_interaction_outcome(session_id) ==
    IF session_id \notin DOMAIN sessions
    THEN Raised("add_interaction", session_id, "ValueError")
    ELSE Returned("add_interaction", session_id, None)

add_interaction_CacheFirst(session_id, question, answer, evaluation, feedback, context, question_type, expected_topics, timestamp) ==
    LET interaction ==
            InteractionMemory(
                IF timestamp # None THEN timestamp[1] ELSE now,
                question, answer, evaluation, feedback, context,
                question_type, expected_topics)
    IN  /\ performance_cache' =
               UpdatePerformanceCache(performance_cache, session_id, interaction)
        /\ sessions' =
               IF session_id \notin DOMAIN sessions
               THEN sessions
               ELSE [sessions EXCEPT ![session_id] =
                        _manage_memory_size(
                            AddToSession(@, interaction, question, expected_topics),
                            max_interactions_per_session)]

\* the effect of add_interaction on the store
add_interaction(session_id, question, answer, evaluation, feedback, context, question_type, expected_topics, timestamp) ==
    IF session_id \notin DOMAIN sessions
    THEN UNCHANGED <<sessions, performance_cache>>
    ELSE LET interaction ==
                InteractionMemory(
                    IF timestamp # None THEN timestamp[1] ELSE now,
                    question, answer, evaluation, feedback, context,
                    question_type, expected_topics)
         IN  /\ sessions' =
                    [sessions EXCEPT ![session_id] =
                        _manage_memory_size(
                            AddToSession(@, interaction, question, expected_topics),
                            max_interactions_per_session)]
             /\ performance_cache' =
                    UpdatePerformanceCache(performance_cache, session_id, interaction)

(***************************************************************************)
(* ConversationMemory: read operations                                     *)
(***************************************************************************)
_get_recent_interactions(session_memory, limit) ==
    LET recent == IF session_memory.interactions # << >>
                  THEN SliceLast(session_memory.interactions, limit)
                  ELSE << >>
    IN  [i \in DOMAIN recent |->
            [question      |-> recent[i].question,
             answer        |-> recent[i].answer,
             question_type |-> recent[i].question_type,
             timestamp     |-> isoformat(recent[i].timestamp)]]

RECURSIVE SumSeq(_)
SumSeq(s) == IF s = << >> THEN 0 ELSE Head(s) + SumSeq(Tail(s))

\* the values of key `key` over the samples whose evaluation has it, in order
RECURSIVE ScoresOf(_, _)
ScoresOf(performance_data, key) ==
    IF performance_data = << >> THEN << >>
    ELSE (IF key \in DOMAIN Head(performance_data).evaluation
          THEN <<Head(performance_data).evaluation[key]>>
          ELSE << >>) \o ScoresOf(Tail(performance_data), key)

\* an average score is kept as the pair <<sum, count>> (sum / count in Python)
_get_performance_summary(cache, session_id) ==
    IF session_id \notin DOMAIN cache THEN EmptyDict
    ELSE IF cache[session_id] = << >> THEN EmptyDict
    ELSE LET performance_data == cache[session_id]
             keys == UNION {DOMAIN performance_data[i].evaluation :
                               i \in DOMAIN performance_data}
         IN  [total_evaluations |-> Len(performance_data),
              average_scores    |->
                  [k \in keys |-> <<SumSeq(ScoresOf(performance_data, k)),
                                    Len(ScoresOf(performance_data, k))>>],
              recent_trend      |-> IF Len(performance_data) > 1
                                    THEN "improving" ELSE "initial"]

_analyze_conversation_flow(session_memory) ==
    LET interactions == session_memory.interactions
        typed == SelectSeq(interactions, LAMBDA i : i.question_type # "")
        question_types == [i \in DOMAIN typed |-> typed[i].question_type]
    IN  IF interactions = << >> THEN [flow_quality |-> "no_data"]
        ELSE [total_interactions  |-> Len(interactions),
              question_types_used |->
                  [t \in Range(question_types) |->
                      Cardinality({i \in DOMAIN question_types :
                                     question_types[i] = t})],
              flow_diversity      |-> Cardinality(Range(question_types)),
              progression         |-> IF Len(question_types) >= 5
                                      THEN SliceLast(question_types, 5)
                                      ELSE question_types]

RecentLimit == 5

get_session_context_value(session_id) ==
    LET session_memory == sessions[session_id]
    IN  [session_id          |-> session_id,
         topic               |-> session_memory.topic,
         difficulty          |-> session_memory.difficulty.value,
         start_time          |-> isoformat(session_memory.start_time),
         current_question    |-> session_memory.current_question,
         covered_topics      |-> session_memory.covered_topics,
         interaction_count   |-> Len(session_memory.interactions),
         recent_interactions |-> _get_recent_interactions(session_memory, RecentLimit),
         performance_summary |-> _get_performance_summary(performance_cache, session_id),
         conversation_flow   |-> _analyze_conversation_flow(session_memory)]

\* get_session_context with the unknown-session answer of its sibling reads
get_session_context_outcome_Silent(session_id) ==
    IF session_id \notin DOMAIN sessions
    THEN Returned("get_session_context", session_id, Some(EmptyDict))
    ELSE Returned("get_session_context", session_id,
                  Some(get_session_context_value(session_id)))

\* the outcome of get_session_context: ValueError for an unknown session,
\* AttributeError when the stored difficulty is a plain str
get_session_context_outcome(session_id) ==
    IF session_id \notin DOMAIN sessions
    THEN Raised("get_session_context", session_id, "ValueError")
    ELSE IF ~HasValueAttr(sessions[session_id].difficulty)
    THEN Raised("get_session_context", session_id, "AttributeError")
    ELSE Returned("get_session_context", session_id,
                  Some(get_session_context_value(session_id)))

get_session_context(session_id) ==
    /\ ret' = get_session_context_outcome(session_id)
    /\ UNCHANGED <<sessions, performance_cache>>

HistoryEntry(interaction, include_evaluations) ==
    LET entry == [timestamp      |-> isoformat(interaction.timestamp),
                  question       |-> interaction.question,
                  answer         |-> interaction.answer,
                  feedback       |-> interaction.feedback,
                  question_type  |-> interaction.question_type,
                  topics_covered |-> interaction.topics_covered]
    IN  IF include_evaluations /\ Truthy(interaction.evaluation)
        THEN DictSet(entry, "evaluation", interaction.evaluation[1])
        ELSE entry

\* `if limit:` is false for None and for 0
get_conversation_history_value(session_id, limit, include_evaluations) ==
    IF session_id \notin DOMAIN sessions THEN << >>
    ELSE LET all == sessions[session_id].interactions
             interactions == IF limit # None /\ limit[1] # 0
                             THEN SliceLast(all, limit[1]) ELSE all
         IN  [i \in DOMAIN interactions |->
                 HistoryEntry(interactions[i], include_evaluations)]

get_conversation_history(session_id, limit, include_evaluations) ==
    /\ ret' = Returned("get_conversation_history", session_id,
                       Some(get_conversation_history_value(
                                session_id, limit, include_evaluations)))
    /\ UNCHANGED <<sessions, performance_cache>>

get_performance_trends_value(session_id, window_size) ==
    IF session_id \notin DOMAIN performance_cache THEN << >>
    ELSE IF performance_cache[session_id] # << >>
    THEN SliceLast(performance_cache[session_id], window_size)
    ELSE << >>

get_performance_trends(session_id, window_size) ==
    /\ ret' = Returned("get_performance_trends", session_id,
                       Some(get_performance_trends_value(session_id, window_size)))
    /\ UNCHANGED <<sessions, performance_cache>>

\* str.lower() on one character
Lower(c) ==
    CASE c = "C" -> "c"
      [] c = "A" -> "a"
      [] c = "D" -> "d"
      [] c = "B" -> "b"
      [] OTHER   -> c

LowerStr(label) == [i \in DOMAIN label |-> Lower(label[i])]

\* `a in b` on two str
IsSubstring(a, b) ==
    \E i \in 0..(Len(b) - Len(a)) : SubSeq(b, i + 1, i + Len(a)) = a

SimilarMatch(interaction, query_topic, interaction_type) ==
    /\ interaction.topics_covered # << >>
    /\ \E i \in DOMAIN interaction.topics_covered :
          IsSubstring(LowerStr(query_topic), LowerStr(interaction.topics_covered[i]))
    /\ (~TruthyStr(interaction_type) \/ interaction.question_type = interaction_type[1])

search_similar_interactions_value(session_id, query_topic, interaction_type, limit) ==
    IF session_id \notin DOMAIN sessions THEN << >>
    ELSE LET matches == SelectSeq(sessions[session_id].interactions,
                                  LAMBDA i : SimilarMatch(i, query_topic,
                                                          interaction_type))
             similar_interactions ==
                 [i \in DOMAIN matches |->
                     [timestamp      |-> isoformat(matches[i].timestamp),
                      question       |-> matches[i].question,
                      answer         |-> matches[i].answer,
                      question_type  |-> matches[i].question_type,
                      topics_covered |-> matches[i].topics_covered]]
         IN  SliceLast(similar_interactions, limit)

search_similar_interactions(session_id, query_topic, interaction_type, limit) ==
    /\ ret' = Returned("search_similar_interactions", session_id,
                       Some(search_similar_interactions_value(
                                session_id, query_topic, interaction_type, limit)))
    /\ UNCHANGED <<sessions, performance_cache>>

\* max(topic_frequency.items(), key=...)[0]: the first topic, in first-seen
\* order, whose count is maximal
MostDiscussed(all_topics) ==
    LET freq(t) == Cardinality({i \in DOMAIN all_topics : all_topics[i] = t})
        best == CHOOSE i \in DOMAIN all_topics :
                    /\ \A j \in DOMAIN all_topics :
                          freq(all_topics[j]) <= freq(all_topics[i])
                    /\ \A j \in 1..(i - 1) :
                          freq(all_topics[j]) < freq(all_topics[i])
    IN  all_topics[best]

\* coverage_depth is kept as the pair <<numerator, denominator>>
get_topic_coverage_value(session_id) ==
    IF session_id \notin DOMAIN sessions THEN EmptyDict
    ELSE LET session_memory == sessions[session_id]
             all_topics == FlattenTopics(session_memory.interactions)
         IN  [total_topics_mentioned |-> Cardinality(Range(all_topics)),
              covered_topics |-> session_memory.covered_topics,
              topic_frequency |->
                  [t \in Range(all_topics) |->
                      Cardinality({i \in DOMAIN all_topics : all_topics[i] = t})],
              most_discussed |-> IF all_topics # << >>
                                 THEN Some(MostDiscussed(all_topics)) ELSE None,
              coverage_depth |-> <<Len(all_topics),
                                   Max(1, Len(session_memory.interactions))>>]

get_topic_coverage(session_id) ==
    /\ ret' = Returned("get_topic_coverage", session_id,
                       Some(get_topic_coverage_value(session_id)))
    /\ UNCHANGED <<sessions, performance_cache>>

(***************************************************************************)
(* ConversationMemory.cleanup_session / cleanup_expired_sessions           *)
(***************************************************************************)
\* cleanup_session emptying the whole store
cleanup_session_sessions_Clear(store, session_id) == << >>

cleanup_session_sessions(store, session_id) ==
    IF session_id \in DOMAIN store THEN DictDel(store, session_id) ELSE store

cleanup_session_cache_Keep(cache, session_id) == cache

cleanup_session_cache(cache, session_id) ==
    IF session_id \in DOMAIN cache THEN DictDel(cache, session_id) ELSE cache

memory_cleanup_session(session_id) ==
    /\ sessions' = cleanup_session_sessions(sessions, session_id)
    /\ performance_cache' = cleanup_session_cache(performance_cache, session_id)

ExpiredSessions_Inclusive(store, utcnow, max_hours) ==
    {id \in DOMAIN store : store[id].start_time <= utcnow - max_hours}

ExpiredSessions(store, utcnow, max_hours) ==
    {id \in DOMAIN store : store[id].start_time < utcnow - max_hours}

cleanup_expired_sessions ==
    LET expired_sessions == ExpiredSessions(sessions, now, max_memory_hours)
    IN  /\ sessions' = [id \in DOMAIN sessions \ expired_sessions |-> sessions[id]]
        /\ performance_cache' =
               [id \in DOMAIN performance_cache \ expired_sessions |->
                   performance_cache[id]]

initialize_session(session_id, topic, difficulty) ==
    /\ sessions' = initialize_session_store(sessions, session_id, topic,
                                            difficulty, now)
    /\ UNCHANGED performance_cache

(***************************************************************************)
(* MainOrchestrator: data                                                  *)
(*                                                                         *)
(* A coroutine of the orchestrator is suspended only where it awaits a     *)
(* remote call: self.agent.ainvoke (pc = "agent") and, inside              *)
(* QuestionGeneratorAgent.generate_follow_up_question, its own             *)
(* self.agent.ainvoke (pc = "qgen").  Everything between two such awaits   *)
(* runs without yielding to the event loop and is one step of the model.   *)
(* The session passed to start_interview is an object with the attributes  *)
(* the method reads: session_id, topic, difficulty_level.                  *)
(***************************************************************************)
\* tasks is the bag of coroutines suspended at an await
NoTasks == EmptyBag

Spawn(task) == tasks (+) SetToBag({task})

Finish(task) == tasks (-) SetToBag({task})

Resume(task, next) == (tasks (-) SetToBag({task})) (+) SetToBag({next})

InFlight(op, pc, id, user_answer, topic, difficulty) ==
    [op |-> op, pc |-> pc, id |-> id, user_answer |-> user_answer,
     topic |-> topic, difficulty |-> difficulty, previous_question |-> ""]

OrchReturned(op, id, payload) ==
    [op |-> op, id |-> id, raised |-> "", payload |-> payload]

OrchRaised(op, id, exc) ==
    [op |-> op, id |-> id, raised |-> exc, payload |-> EmptyDict]

\* topic.replace('_', ' ')
ReplaceUnderscores(topic) ==
    CASE topic = "chat_system" -> "chat system"
      [] OTHER -> topic

FunctionalRequirements == <<"f", "r">>

NonFunctionalRequirements == <<"n", "f", "r">>

\* MainOrchestrator._extract_question_from_response
orch_extract_question_from_response ==
    [question          |-> "What are the key requirements for this system?",
     question_type     |-> "opening",
     topics_targeted   |-> <<"requirements">>,
     difficulty_level  |-> "intermediate",
     expected_concepts |-> <<FunctionalRequirements, NonFunctionalRequirements>>,
     guidance_hints    |-> <<"Think about users", "Consider scale", "Think about data">>]

\* QuestionGeneratorAgent._extract_question_from_response(_, "follow_up", ...)
qgen_extract_follow_up(topic, difficulty_value) ==
    [question          |-> "Based on your previous answer, let's dive deeper into the architecture. How would you structure the main components?",
     question_type     |-> "follow_up",
     topics_targeted   |-> <<"system_architecture", "component_design">>,
     difficulty_level  |-> difficulty_value,
     expected_concepts |-> <<"service boundaries", "data flow", "component interactions">>,
     guidance_hints    |-> <<"Think about the core functionality", "Consider the user journey", "Think about data requirements">>]

\* QuestionGeneratorAgent._generate_fallback_follow_up
_generate_fallback_follow_up(previous_question, user_answer, topic, difficulty) ==
    [question          |->
        CASE difficulty.value = "beginner" ->
               "That's a good start! Can you tell me more about how you would handle data storage?"
          [] difficulty.value = "advanced" ->
               "Given your design, what trade-offs would you consider for data storage in a large-scale deployment?"
          [] OTHER ->
               "Interesting approach. How would you ensure data storage while maintaining performance?",
     question_type     |-> "follow_up",
     topics_targeted   |-> <<"architecture", "trade_offs">>,
     difficulty_level  |-> difficulty.value,
     expected_concepts |-> <<"system design principles", "architectural decisions">>,
     guidance_hints    |-> <<"Consider the pros and cons", "Think about scale", "Consider user experience">>]

\* QuestionGeneratorAgent.generate_follow_up_question, once its agent call
\* has returned (agent_ok) or failed
generate_follow_up_question(agent_ok, previous_question, user_answer, topic, difficulty) ==
    IF agent_ok
    THEN qgen_extract_follow_up(topic, difficulty.value)
    ELSE _generate_fallback_follow_up(previous_question, user_answer, topic, difficulty)

(***************************************************************************)
(* MainOrchestrator.start_interview                                        *)
(***************************************************************************)
\* class InterviewPhase(Enum): the values, in the order of the interview
InterviewPhase == <<"opening", "architecture", "deep_dive", "optimization", "wrap_up">>

NewSessionState_WrapUp(session_id, topic, difficulty, user_context, start_time) ==
    [session             |-> session_id,
     topic               |-> topic,
     difficulty          |-> difficulty,
     phase               |-> "wrap_up",
     start_time          |-> start_time,
     questions_asked     |-> 0,
     topics_covered      |-> << >>,
     performance_history |-> << >>,
     user_context        |-> user_context]

NewSessionState(session_id, topic, difficulty, user_context, start_time) ==
    [session             |-> session_id,
     topic               |-> topic,
     difficulty          |-> difficulty,
     phase               |-> "opening",
     start_time          |-> start_time,
     questions_asked     |-> 0,
     topics_covered      |-> << >>,
     performance_history |-> << >>,
     user_context        |-> user_context]

StartContext(topic, difficulty) ==
    "Starting " \o difficulty.value \o " level interview on " \o topic

StartPayload(opening_question, session_id, topic, difficulty) ==
    [question        |-> opening_question.question,
     context         |-> StartContext(topic, difficulty),
     stage           |-> "opening",
     expected_topics |-> opening_question.expected_concepts,
     guidance        |-> opening_question.guidance_hints,
     session_id      |-> session_id]

StartFallbackQuestion(topic) ==
    "Let's design a " \o ReplaceUnderscores(topic)
        \o " system. What would you say are the key requirements we should consider?"

\* the fallback payload without its marker
StartFallbackPayload_Unmarked(session_id, topic, difficulty) ==
    [question        |-> StartFallbackQuestion(topic),
     context         |-> StartContext(topic, difficulty),
     stage           |-> "opening",
     expected_topics |-> <<"requirements", "architecture", "scalability">>,
     guidance        |-> <<"Think about user needs", "Consider scalability", "Think about data flow">>,
     session_id      |-> session_id]

StartFallbackPayload(session_id, topic, difficulty) ==
    [question        |-> StartFallbackQuestion(topic),
     context         |-> StartContext(topic, difficulty),
     stage           |-> "opening",
     expected_topics |-> <<"requirements", "architecture", "scalability">>,
     guidance        |-> <<"Think about user needs", "Consider scalability", "Think about data flow">>,
     session_id      |-> session_id,
     fallback        |-> TRUE]

\* the model keeps at most MaxTasks coroutines in flight
MaySpawn == BagCardinality(tasks) < MaxTasks

OrchFrame == UNCHANGED <<max_interactions_per_session, max_memory_hours, now, ret,
                         unitVars>>

\* start_interview up to its await of self.agent.ainvoke
start_interview_call(session_id, topic, difficulty, user_context) ==
    /\ current_sessions' =
          DictSet(current_sessions, session_id,
                  NewSessionState(session_id, topic, difficulty, user_context, now))
    /\ initialize_session(session_id, topic, PlainStr(difficulty.value))
    /\ tasks' = Spawn(InFlight("start_interview", "agent", session_id, "", topic,
                             difficulty))
    /\ UNCHANGED resp
    /\ OrchFrame

\* start_interview from the return (agent_ok) or failure of self.agent.ainvoke
start_interview_resume(task, agent_ok) ==
    /\ BagIn(task, tasks)
    /\ task.op = "start_interview"
    /\ LET session_id == task.id
           topic == task.topic
           difficulty == task.difficulty
           opening_question == orch_extract_question_from_response
           fallback == OrchReturned("start_interview", session_id,
                           StartFallbackPayload(session_id, topic, difficulty))
       IN  IF ~agent_ok \/ session_id \notin DOMAIN current_sessions
           THEN \* the except branch, before any update
                /\ resp' = fallback
                /\ UNCHANGED <<current_sessions, sessions, performance_cache>>
           ELSE /\ current_sessions' =
                      [current_sessions EXCEPT ![session_id] =
                          DictSet(DictSet(@, "questions_asked", @.questions_asked + 1),
                                  "last_question", opening_question.question)]
                /\ add_interaction(session_id, Some(opening_question.question),
                                   None, None, None, Some(opening_question),
                                   "general",
                                   Some(opening_question.expected_concepts), None)
                /\ resp' = IF session_id \in DOMAIN sessions
                           THEN OrchReturned("start_interview", session_id,
                                    StartPayload(opening_question, session_id,
                                                 topic, difficulty))
                           ELSE fallback
    /\ tasks' = Finish(task)
    /\ OrchFrame

(***************************************************************************)
(* MainOrchestrator.process_user_answer                                    *)
(***************************************************************************)
_generate_fallback_response(session_id, user_answer, error) ==
    IF session_id \in DOMAIN current_sessions
    THEN OrchReturned("process_user_answer", session_id,
            [type        |-> "fallback",
             message     |-> "Thank you for your response. Can you elaborate on your approach to handling scalability?",
             context     |-> "Fallback response due to: " \o error,
             focus_areas |-> <<"scalability", "architecture">>,
             session_id  |-> session_id,
             fallback    |-> TRUE])
    ELSE OrchRaised("process_user_answer", session_id, "KeyError")

ProcessedResponse(follow_up, session_id) ==
    [type        |-> "follow_up",
     message     |-> follow_up.question,
     context     |-> follow_up,
     focus_areas |-> follow_up.topics_targeted,
     session_id  |-> session_id]

_update_session_state(session_state, user_answer, response) ==
    LET asked == DictSet(session_state, "questions_asked",
                         session_state.questions_asked + 1)
        evaluated == IF "evaluation" \in DOMAIN response
                     THEN DictSet(asked, "performance_history",
                                  Append(asked.performance_history,
                                         response.evaluation))
                     ELSE asked
    IN  IF "message" \in DOMAIN response
        THEN DictSet(evaluated, "last_question", response.message)
        ELSE evaluated

\* session_state.get("last_question", "")
LastQuestionOr(session_state, default) ==
    IF "last_question" \in DOMAIN session_state
    THEN session_state.last_question ELSE default

\* process_user_answer up to its await of self.agent.ainvoke
process_user_answer_call(session_id, user_answer) ==
    /\ IF session_id \notin DOMAIN current_sessions
       THEN /\ resp' = OrchRaised("process_user_answer", session_id, "ValueError")
            /\ UNCHANGED tasks
       ELSE /\ tasks' = Spawn(InFlight("process_user_answer", "agent", session_id,
                                    user_answer, "", DifficultyLevel("")))
            /\ UNCHANGED resp
    /\ UNCHANGED <<current_sessions, sessions, performance_cache>>
    /\ OrchFrame

\* process_user_answer from the return or failure of self.agent.ainvoke up to
\* the await inside generate_follow_up_question (_process_agent_response), or
\* through the except branch
process_user_answer_agent(task, agent_ok) ==
    /\ BagIn(task, tasks)
    /\ task.op = "process_user_answer"
    /\ task.pc = "agent"
    /\ LET session_id == task.id
           user_answer == task.user_answer
       IN  IF ~agent_ok
           THEN /\ resp' = _generate_fallback_response(session_id, user_answer,
                                                       "agent unavailable")
                /\ tasks' = Finish(task)
           ELSE IF session_id \notin DOMAIN current_sessions
           THEN /\ resp' = _generate_fallback_response(session_id, user_answer,
                                                       "KeyError")
                /\ tasks' = Finish(task)
           ELSE /\ tasks' = Resume(task,
                               [InFlight("process_user_answer", "qgen", session_id,
                                         user_answer,
                                         current_sessions[session_id].topic,
                                         current_sessions[session_id].difficulty)
                                EXCEPT !.previous_question =
                                    LastQuestionOr(current_sessions[session_id], "")])
                /\ UNCHANGED resp
    /\ UNCHANGED <<current_sessions, sessions, performance_cache>>
    /\ OrchFrame

\* process_user_answer from the return or failure of the question generator's
\* agent call to its own return
process_user_answer_qgen(task, agent_ok) ==
    /\ BagIn(task, tasks)
    /\ task.op = "process_user_answer"
    /\ task.pc = "qgen"
    /\ LET session_id == task.id
           user_answer == task.user_answer
           follow_up == generate_follow_up_question(agent_ok,
                            task.previous_question, user_answer,
                            task.topic, task.difficulty)
           processed_response == ProcessedResponse(follow_up, session_id)
       IN  IF session_id \in DOMAIN current_sessions
           THEN /\ current_sessions' =
                      [current_sessions EXCEPT ![session_id] =
                          _update_session_state(@, user_answer, processed_response)]
                /\ resp' = OrchReturned("process_user_answer", session_id,
                                        processed_response)
           ELSE /\ resp' = _generate_fallback_response(session_id, user_answer,
                                                       "KeyError")
                /\ UNCHANGED current_sessions
    /\ tasks' = Finish(task)
    /\ UNCHANGED <<sessions, performance_cache>>
    /\ OrchFrame

(***************************************************************************)
(* MainOrchestrator.get_session_insights                                   *)
(***************************************************************************)
_analyze_phase_progression(session_state) ==
    [current_phase        |-> session_state.phase,
     phase_duration       |-> 0,
     ready_for_next_phase |-> session_state.questions_asked > ReadyAfterQuestions]

_generate_session_recommendations(session_state, context) ==
    (IF session_state.questions_asked > WrapUpAfterQuestions
     THEN <<"Consider moving to wrap-up phase">> ELSE << >>)
    \o (IF Len(session_state.topics_covered) < MinTopicsCovered
        THEN <<"Explore more topic areas">> ELSE << >>)

SessionInsights(session_state, context) ==
    [memory_insights       |-> context,
     orchestrator_insights |->
        [session_duration  |-> now - session_state.start_time,
         questions_asked   |-> session_state.questions_asked,
         current_phase     |-> session_state.phase,
         topics_covered    |-> session_state.topics_covered,
         phase_progression |-> _analyze_phase_progression(session_state)],
     recommendations       |->
        _generate_session_recommendations(session_state, context)]

get_session_insights(session_id) ==
    /\ resp' =
          IF session_id \notin DOMAIN current_sessions
          THEN OrchRaised("get_session_insights", session_id, "ValueError")
          ELSE IF get_session_context_outcome(session_id).raised # ""
          THEN OrchReturned("get_session_insights", session_id,
                   [error      |-> "Unable to retrieve session insights",
                    session_id |-> session_id])
          ELSE OrchReturned("get_session_insights", session_id,
                   SessionInsights(current_sessions[session_id],
                                   get_session_context_value(session_id)))
    /\ UNCHANGED <<current_sessions, sessions, performance_cache, tasks>>
    /\ OrchFrame

(***************************************************************************)
(* MainOrchestrator.cleanup_session                                        *)
(***************************************************************************)
orch_cleanup_session(session_id) ==
    /\ current_sessions' = IF session_id \in DOMAIN current_sessions
                           THEN DictDel(current_sessions, session_id)
                           ELSE current_sessions
    /\ memory_cleanup_session(session_id)
    /\ resp' = OrchReturned("cleanup_session", session_id, EmptyDict)
    /\ UNCHANGED tasks
    /\ OrchFrame

(***************************************************************************)
(* Inputs of the callers                                                   *)
(***************************************************************************)
Caching == <<"c", "a">>

Database == <<"d", "b">>

Cdn == <<"C", "d">>

Eval8 == [clarity_score |-> 8]

\* the argument tuples callers pass to add_interaction
AddInputs ==
    { [question |-> Some("Q1"), answer |-> None, evaluation |-> None,
       question_type |-> "opening", expected_topics |-> Some(<<Caching, Database>>)],
      [question |-> Some("Q2"), answer |-> Some("A1"), evaluation |-> Some(Eval8),
       question_type |-> "follow_up", expected_topics |-> Some(<<Caching, Cdn>>)],
      [question |-> None, answer |-> Some("A2"), evaluation |-> Some(EmptyDict),
       question_type |-> "general", expected_topics |-> None],
      [question |-> Some(""), answer |-> None, evaluation |-> None,
       question_type |-> "general", expected_topics |-> Some(<<Database, Database>>)] }

\* <<limit, include_evaluations>> passed to get_conversation_history
HistoryArgs == {<<None, FALSE>>, <<None, TRUE>>, <<Some(0), FALSE>>, <<Some(1), TRUE>>}

\* <<query_topic, interaction_type, limit>> passed to search_similar_interactions
SearchArgs == {<<<<"c">>, None, 5>>, <<<<"c">>, None, 1>>, <<Cdn, None, 5>>,
               <<<<"c">>, Some("opening"), 5>>, <<<<"c">>, None, 0>>}

\* the window_size arguments of get_performance_trends; 10 is its default
TrendWindows == {0, 1, 10}

AddWith(id, inp) ==
    add_interaction(id, inp.question, inp.answer, inp.evaluation, None, None,
                    inp.question_type, inp.expected_topics, None)

RECURSIVE TotalHeld(_, _)
TotalHeld(store, ids) ==
    IF ids = {} THEN 0
    ELSE LET id == CHOOSE x \in ids : TRUE
         IN  Len(store[id].interactions) + TotalHeld(store, ids \ {id})

NoResp == [op |-> "", id |-> "", raised |-> "", payload |-> EmptyDict]

(***************************************************************************)
(* Calls of the ConversationMemory API by its callers.  `ids` are the      *)
(* session ids the callers use, `held` the number of interactions in the   *)
(* store beyond which add_interaction is no longer called.                 *)
(***************************************************************************)
MemFrame == UNCHANGED <<max_interactions_per_session, max_memory_hours, now,
                        orchVars, unitVars>>

\* the bounds under which a caller still adds an interaction
MayAdd(id, inp, held) ==
    /\ TotalHeld(sessions, DOMAIN sessions) < held
    /\ (id \in DOMAIN performance_cache /\ Truthy(inp.evaluation))
          => Len(performance_cache[id]) < MaxSamples

CallInitializeSession(ids) ==
    /\ \E id \in ids :
          /\ initialize_session(id, "chat_system", DifficultyLevel("beginner"))
          /\ ret' = Returned("initialize_session", id, None)
    /\ MemFrame

CallAddInteraction(ids, held) ==
    /\ \E id \in ids, inp \in AddInputs :
          /\ MayAdd(id, inp, held)
          /\ AddWith(id, inp)
          /\ ret' = add_interaction_outcome(id)
    /\ MemFrame

\* add_interaction called with an evaluation
CallAddEvaluated(ids, held) ==
    /\ \E id \in ids, inp \in {i \in AddInputs : Truthy(i.evaluation)} :
          /\ MayAdd(id, inp, held)
          /\ AddWith(id, inp)
          /\ ret' = add_interaction_outcome(id)
    /\ MemFrame

CallCleanupSession(ids) ==
    /\ \E id \in ids :
          /\ memory_cleanup_session(id)
          /\ ret' = Returned("cleanup_session", id, None)
    /\ MemFrame

CallGetSessionContext(ids) ==
    /\ \E id \in ids : get_session_context(id)
    /\ MemFrame

CallGetConversationHistory(ids) ==
    /\ \E id \in ids, args \in HistoryArgs :
          get_conversation_history(id, args[1], args[2])
    /\ MemFrame

CallGetPerformanceTrends(ids) ==
    /\ \E id \in ids, window_size \in TrendWindows :
          get_performance_trends(id, window_size)
    /\ MemFrame

CallSearchSimilarInteractions(ids) ==
    /\ \E id \in ids, args \in SearchArgs :
          search_similar_interactions(id, args[1], args[2], args[3])
    /\ MemFrame

CallGetTopicCoverage(ids) ==
    /\ \E id \in ids : get_topic_coverage(id)
    /\ MemFrame

CallCleanupExpiredSessions ==
    /\ cleanup_expired_sessions
    /\ ret' = Returned("cleanup_expired_sessions", "", None)
    /\ MemFrame

\* the hours at which the callers act
Hours == {0, 1, DefaultMemoryHours, DefaultMemoryHours + 1}

\* datetime.utcnow() advances to a later hour
Tick(hours) ==
    /\ \E h \in hours : now < h /\ now' = h
    /\ UNCHANGED <<sessions, performance_cache, max_interactions_per_session,
                   max_memory_hours, ret, orchVars, unitVars>>

(***************************************************************************)
(* MemSpec: one session of a ConversationMemory used on its own, built     *)
(* with any max_interactions_per_session in 1..MaxCap; the caller issues   *)
(* initialize_session, add_interaction and cleanup_session in any order.   *)
(***************************************************************************)
MemIds == {"s1"}

MemInit ==
    /\ sessions = << >>
    /\ performance_cache = << >>
    /\ max_interactions_per_session \in 1..MaxCap
    /\ max_memory_hours = DefaultMemoryHours
    /\ now = 0
    /\ ret = NoCall
    /\ current_sessions = << >>
    /\ tasks = << >>
    /\ resp = NoResp
    /\ UnitsInit

MemNext ==
    \/ CallInitializeSession(MemIds)
    \/ CallAddInteraction(MemIds, MaxHeld)
    \/ CallCleanupSession(MemIds)

MemSpec == MemInit /\ [][MemNext]_vars

(***************************************************************************)
(* ReadSpec: a ConversationMemory built with the defaults; one session is   *)
(* initialized and cleaned up, and the callers issue add_interaction and   *)
(* the read operations on its id and on an id the store never knew.        *)
(***************************************************************************)
ReadInit ==
    /\ sessions = << >>
    /\ performance_cache = << >>
    /\ max_interactions_per_session = DefaultMaxInteractions
    /\ max_memory_hours = DefaultMemoryHours
    /\ now = 0
    /\ ret = NoCall
    /\ current_sessions = << >>
    /\ tasks = << >>
    /\ resp = NoResp
    /\ UnitsInit

ReadNext ==
    \/ CallInitializeSession(MemIds)
    \/ CallAddInteraction(Ids, MaxReadHeld)
    \/ CallCleanupSession(MemIds)
    \/ CallGetSessionContext(Ids)
    \/ CallGetConversationHistory(Ids)
    \/ CallGetPerformanceTrends(Ids)
    \/ CallSearchSimilarInteractions(Ids)
    \/ CallGetTopicCoverage(Ids)

ReadSpec == ReadInit /\ [][ReadNext]_vars

(***************************************************************************)
(* SweepSpec: a ConversationMemory over time; sessions are initialized on  *)
(* two ids at different hours, given evaluated interactions, and the       *)
(* expiry sweep runs while the clock advances.                             *)
(***************************************************************************)
SweepInit ==
    /\ sessions = << >>
    /\ performance_cache = << >>
    /\ max_interactions_per_session = DefaultMaxInteractions
    /\ max_memory_hours \in {1, DefaultMemoryHours}
    /\ now = 0
    /\ ret = NoCall
    /\ current_sessions = << >>
    /\ tasks = << >>
    /\ resp = NoResp
    /\ UnitsInit

SweepNext ==
    \/ CallInitializeSession(Ids)
    \/ CallAddEvaluated(Ids, MaxOwnHeld)
    \/ CallCleanupExpiredSessions
    \/ Tick(Hours)

SweepSpec == SweepInit /\ [][SweepNext]_vars

(***************************************************************************)
(* CoverSpec: one session of a ConversationMemory built with any           *)
(* max_interactions_per_session in 1..MaxCap, so that interactions are     *)
(* evicted; the caller initializes it, adds interactions and reads its     *)
(* topic coverage.                                                         *)
(***************************************************************************)
CoverNext ==
    \/ CallInitializeSession(MemIds)
    \/ CallAddInteraction(MemIds, MaxReadHeld)
    \/ CallGetTopicCoverage(MemIds)

CoverSpec == MemInit /\ [][CoverNext]_vars

(***************************************************************************)
(* Calls of the MainOrchestrator API by its callers, and the resumption of *)
(* its suspended coroutines by the event loop.  `ids` are the session ids  *)
(* the callers use.                                                        *)
(***************************************************************************)
Difficulties == {DifficultyLevel("beginner"), DifficultyLevel("advanced")}

InFlightTasks == BagToSet(tasks)

\* the process_user_answer coroutines in flight on a session id
Turns(id) == {task \in InFlightTasks : task.op = "process_user_answer" /\ task.id = id}

RECURSIVE CopiesOf(_)
CopiesOf(set) ==
    IF set = {} THEN 0
    ELSE LET task == CHOOSE x \in set : TRUE
         IN  CopiesIn(task, tasks) + CopiesOf(set \ {task})

TurnsInFlight(id) == CopiesOf(Turns(id))

\* the bound under which a caller still submits an answer
MayAnswer(id) ==
    id \in DOMAIN current_sessions
       => current_sessions[id].questions_asked + TurnsInFlight(id) < MaxQuestions

StartInterview(ids) ==
    /\ MaySpawn
    /\ \E id \in ids, difficulty \in Difficulties :
          start_interview_call(id, "chat_system", difficulty, EmptyDict)

StartInterviewResume ==
    \E task \in InFlightTasks, agent_ok \in BOOLEAN :
        start_interview_resume(task, agent_ok)

ProcessUserAnswer(ids) ==
    /\ MaySpawn
    /\ \E id \in ids : MayAnswer(id) /\ process_user_answer_call(id, "A1")

ProcessUserAnswerAgent ==
    \E task \in InFlightTasks, agent_ok \in BOOLEAN :
        process_user_answer_agent(task, agent_ok)

ProcessUserAnswerQgen ==
    \E task \in InFlightTasks, agent_ok \in BOOLEAN :
        process_user_answer_qgen(task, agent_ok)

CleanupSession(ids) ==
    \E id \in ids : orch_cleanup_session(id)

GetSessionInsights(ids) ==
    \E id \in ids : get_session_insights(id)

(***************************************************************************)
(* Spec: a MainOrchestrator with its own ConversationMemory(); the callers *)
(* start, answer, inspect and clean up one session id with up to MaxTasks  *)
(* coroutines in flight at once.                                           *)
(***************************************************************************)
Init ==
    /\ sessions = << >>
    /\ performance_cache = << >>
    /\ max_interactions_per_session = DefaultMaxInteractions
    /\ max_memory_hours = DefaultMemoryHours
    /\ now = 0
    /\ ret = NoCall
    /\ current_sessions = << >>
    /\ tasks = NoTasks
    /\ resp = NoResp
    /\ UnitsInit

Next ==
    \/ StartInterview(MemIds)
    \/ StartInterviewResume
    \/ ProcessUserAnswer(MemIds)
    \/ ProcessUserAnswerAgent
    \/ ProcessUserAnswerQgen
    \/ CleanupSession(MemIds)
    \/ GetSessionInsights(MemIds)

Spec == Init /\ [][Next]_vars

(***************************************************************************)
(* IsoSpec: the same orchestrator used for two session ids; the callers of *)
(* each id await a start_interview or process_user_answer before issuing   *)
(* the next one on that id, so coroutines of different sessions interleave.*)
(***************************************************************************)
Quiet(id) == \A task \in InFlightTasks : task.id # id

IsoStartInterview ==
    \E id \in Ids : Quiet(id) /\ StartInterview({id})

IsoProcessUserAnswer ==
    \E id \in Ids : Quiet(id) /\ ProcessUserAnswer({id})

IsoNext ==
    \/ IsoStartInterview
    \/ StartInterviewResume
    \/ IsoProcessUserAnswer
    \/ ProcessUserAnswerAgent
    \/ ProcessUserAnswerQgen
    \/ CleanupSession(Ids)
    \/ GetSessionInsights(Ids)

IsoSpec == Init /\ [][IsoNext]_vars

(***************************************************************************)
(* OwnSpec: a MainOrchestrator and its ConversationMemory over time.  The  *)
(* callers start, answer and clean up one session id, clean up an id that  *)
(* was never started, add interactions and read the session context        *)
(* through orchestrator.memory, and run the expiry sweep of the memory     *)
(* while the clock advances.                                               *)
(***************************************************************************)
OwnStartInterview ==
    \E id \in MemIds : Quiet(id) /\ StartInterview({id})

OwnProcessUserAnswer ==
    \E id \in MemIds : Quiet(id) /\ ProcessUserAnswer({id})

OwnNext ==
    \/ OwnStartInterview
    \/ StartInterviewResume
    \/ OwnProcessUserAnswer
    \/ ProcessUserAnswerAgent
    \/ ProcessUserAnswerQgen
    \/ CleanupSession(Ids)
    \/ CallAddEvaluated(MemIds, MaxOwnHeld)
    \/ CallGetSessionContext(MemIds)
    \/ CallCleanupExpiredSessions
    \/ Tick({DefaultMemoryHours + 1})

OwnSpec == Init /\ [][OwnNext]_vars

(***************************************************************************)
(* DifficultyAdaptorAgent.should_adjust_difficulty                         *)
(***************************************************************************)
(* Scores and confidences are in tenths.  A reply of the LLM is a failure  *)
(* of the call, a text that is no JSON object, or a JSON object.           *)
(***************************************************************************)
\* Literal["beginner", "intermediate", "advanced"]
Levels == {"beginner", "intermediate", "advanced"}

\* Literal["improving", "stable", "declining"]
Trends == {"improving", "stable", "declining"}

ValidDifficultyAdjustment_NoLiteral(fields) ==
    /\ fields.performance_trend \in Trends
    /\ fields.confidence_in_recommendation \in 0..10

\* pydantic's validation of the fields of a DifficultyAdjustment
ValidDifficultyAdjustment(fields) ==
    /\ fields.current_difficulty \in Levels
    /\ fields.recommended_difficulty \in Levels
    /\ fields.performance_trend \in Trends
    /\ fields.confidence_in_recommendation \in 0..10

\* DifficultyAdjustment(**fields)
DifficultyAdjustment(fields) ==
    IF ValidDifficultyAdjustment(fields)
    THEN [raised |-> "", value |-> Some(fields)]
    ELSE [raised |-> "ValidationError", value |-> None]

\* the except branch: the current level, adjustment_needed = False
SafeFallback(current_difficulty, exc) ==
    IF ~HasValueAttr(current_difficulty)
    THEN [raised |-> "AttributeError", value |-> None]
    ELSE DifficultyAdjustment(
             [current_difficulty           |-> current_difficulty.value,
              recommended_difficulty       |-> current_difficulty.value,
              adjustment_reason            |-> <<"Analysis error: ", exc>>,
              performance_trend            |-> "stable",
              confidence_in_recommendation |-> 3,
              adjustment_needed            |-> FALSE])

\* json.dumps rejects a datetime object
JsonSerializable(performance_history) ==
    \A i \in DOMAIN performance_history :
        "timestamp" \notin DOMAIN performance_history[i]

\* self.parser.parse(response.content)
parser_parse(content) ==
    IF content = None THEN None
    ELSE IF ValidDifficultyAdjustment(content[1]) THEN content
    ELSE None

\* should_adjust_difficulty up to its await of self.llm.ainvoke
should_adjust_difficulty_call(performance_history, current_difficulty) ==
    /\ adjustment.pc \in {"idle", "done"}
    /\ adjustment' =
          IF ~HasValueAttr(current_difficulty)
          THEN [pc |-> "done", performance_history |-> performance_history,
                current_difficulty |-> current_difficulty, reply |-> None,
                outcome |-> SafeFallback(current_difficulty, "AttributeError")]
          ELSE IF ~JsonSerializable(performance_history)
          THEN [pc |-> "done", performance_history |-> performance_history,
                current_difficulty |-> current_difficulty, reply |-> None,
                outcome |-> SafeFallback(current_difficulty, "TypeError")]
          ELSE [pc |-> "llm", performance_history |-> performance_history,
                current_difficulty |-> current_difficulty]
    /\ UNCHANGED <<memVars, orchVars, assessment, workflow, session_repository, svc>>

\* should_adjust_difficulty from the reply of self.llm.ainvoke on
should_adjust_difficulty_llm(reply) ==
    /\ adjustment.pc = "llm"
    /\ adjustment' =
          [pc |-> "done",
           performance_history |-> adjustment.performance_history,
           current_difficulty |-> adjustment.current_difficulty,
           reply |-> Some(reply),
           outcome |->
              IF reply.raised
              THEN SafeFallback(adjustment.current_difficulty, "LlmError")
              ELSE IF parser_parse(reply.content) = None
              THEN SafeFallback(adjustment.current_difficulty,
                                "OutputParserException")
              ELSE [raised |-> "", value |-> parser_parse(reply.content)]]
    /\ UNCHANGED <<memVars, orchVars, assessment, workflow, session_repository, svc>>

\* five evaluations of 9.5 out of 10
HighScores == [i \in 1..5 |-> [overall_score |-> 95]]

PerformanceHistories ==
    {<< >>, HighScores, <<[overall_score |-> 30], [overall_score |-> 60]>>,
     <<[overall_score |-> 95, timestamp |-> 0]>>}

CurrentDifficulties == {DifficultyLevel(v) : v \in Levels}

ReplyFields ==
    [current_difficulty           : {"beginner", "advanced"},
     recommended_difficulty       : Levels \cup {"expert"},
     adjustment_reason            : {<<"mastery of the level">>},
     performance_trend            : {"improving", "stable"},
     confidence_in_recommendation : {8, 12},
     adjustment_needed            : BOOLEAN]

Replies ==
    {[raised |-> TRUE, content |-> None], [raised |-> FALSE, content |-> None]}
       \cup {[raised |-> FALSE, content |-> Some(f)] : f \in ReplyFields}

ShouldAdjustDifficulty ==
    \E performance_history \in PerformanceHistories,
       current_difficulty \in CurrentDifficulties :
        should_adjust_difficulty_call(performance_history, current_difficulty)

ShouldAdjustDifficultyLlm ==
    \E reply \in Replies : should_adjust_difficulty_llm(reply)

(***************************************************************************)
(* AdaptSpec: calls of should_adjust_difficulty with the three levels,     *)
(* several performance histories and every kind of reply of the LLM.       *)
(***************************************************************************)
AdaptNext ==
    \/ ShouldAdjustDifficulty
    \/ ShouldAdjustDifficultyLlm

AdaptSpec == Init /\ [][AdaptNext]_vars

(***************************************************************************)
(* QuestionGeneratorAgent: the assess_difficulty tool                      *)
(***************************************************************************)
(* performance_indicators is a str: empty, a text json.loads rejects, or   *)
(* a JSON object.  A key the object lacks is None here; a JSON value is    *)
(* [number |-> n] or [string |-> s].                                       *)
(***************************************************************************)
AssessHighScore == 8

AssessLowScore == 4

AssessDefaultScore == 5

\* json.loads(performance_indicators) if performance_indicators else {}
LoadIndicators(performance_indicators) ==
    IF performance_indicators.text = ""
    THEN Some([average_score |-> None, score_variance |-> None])
    ELSE IF performance_indicators.text = "object"
    THEN Some(performance_indicators.object)
    ELSE None

assess_difficulty(current_difficulty, performance_indicators) ==
    LET loaded == LoadIndicators(performance_indicators)
        failed == [error |-> TRUE, maintain_current |-> current_difficulty]
    IN  IF loaded = None THEN failed
        ELSE LET indicators == loaded[1]
                 avg_score == IF indicators.average_score = None
                              THEN [number |-> AssessDefaultScore]
                              ELSE indicators.average_score[1]
                 assessment_ ==
                     [error             |-> FALSE,
                      current_level     |-> current_difficulty,
                      performance_score |-> avg_score,
                      consistency       |-> IF indicators.score_variance = None
                                            THEN "stable"
                                            ELSE indicators.score_variance[1],
                      should_adjust     |-> FALSE,
                      suggested_level   |-> current_difficulty,
                      adjustment_reason |-> "maintaining current level"]
             IN  IF "number" \notin DOMAIN avg_score THEN failed
                 ELSE IF avg_score.number > AssessHighScore
                 THEN [assessment_ EXCEPT
                         !.should_adjust = TRUE,
                         !.suggested_level =
                             IF current_difficulty = "intermediate"
                             THEN "advanced" ELSE "expert",
                         !.adjustment_reason = "user demonstrating high competency"]
                 ELSE IF avg_score.number < AssessLowScore
                 THEN [assessment_ EXCEPT
                         !.should_adjust = TRUE,
                         !.suggested_level =
                             IF current_difficulty = "intermediate"
                             THEN "beginner" ELSE "basic",
                         !.adjustment_reason = "user needs more foundational support"]
                 ELSE assessment_

Indicators ==
    {[text |-> t, object |-> [average_score |-> None, score_variance |-> None]] :
        t \in {"", "not json"}}
      \cup {[text |-> "object", object |-> [average_score |-> a, score_variance |-> v]] :
               a \in {None, Some([string |-> "high"])}
                        \cup {Some([number |-> n]) : n \in 0..10},
               v \in {None, Some("stable"), Some("volatile")}}

AssessDifficulty ==
    /\ \E current_difficulty \in Levels, performance_indicators \in Indicators :
          assessment' = [called |-> TRUE,
                         current_difficulty |-> current_difficulty,
                         performance_indicators |-> performance_indicators,
                         result |-> assess_difficulty(current_difficulty,
                                                      performance_indicators)]
    /\ UNCHANGED <<memVars, orchVars, adjustment, workflow, session_repository, svc>>

(***************************************************************************)
(* ToolSpec: calls of the assess_difficulty tool with the three levels and *)
(* every kind of performance_indicators.                                   *)
(***************************************************************************)
ToolNext == AssessDifficulty

ToolSpec == Init /\ [][ToolNext]_vars

(***************************************************************************)
(* FeedbackProviderAgent: the comprehensive-feedback workflow              *)
(***************************************************************************)
(* A reply of self.llm.invoke is "raise" (the call fails), "feedback" (a   *)
(* JSON object that is a FeedbackResponse), "object" (another JSON         *)
(* object), "null" (the JSON text null) or "text" (not JSON).  A dict      *)
(* given by the caller is [serializable |-> b]: json.dumps raises a        *)
(* TypeError on one that is not.  A key the state lacks is None.           *)
(***************************************************************************)
LlmReplies == {"raise", "feedback", "object", "null", "text"}

_parse_json_response(response, context) ==
    IF response # "text" THEN [json |-> response]
    ELSE CASE context = "answer_analysis" ->
                [areas_for_improvement |-> <<"Analysis parsing failed">>]
           [] context = "performance_report" ->
                [overall_summary |->
                    "Performance assessment unavailable due to parsing error"]
           [] OTHER ->
                [message   |-> "Analysis temporarily unavailable",
                 error     |-> context,
                 timestamp |-> isoformat(now)]

_create_fallback_feedback ==
    [error_note   |-> "Comprehensive feedback temporarily unavailable",
     generated_at |-> isoformat(now)]

analyze_answer(state, reply) ==
    IF state.evaluation_data.serializable /\ reply # "raise"
    THEN [state EXCEPT
            !.answer_analysis = Some(_parse_json_response(reply, "answer_analysis")),
            !.step = "analysis_complete"]
    ELSE [state EXCEPT
            !.answer_analysis = Some([error |-> "Analysis failed"]),
            !.step = "analysis_error"]

generate_performance_report(state, reply) ==
    IF state.evaluation_data.serializable /\ reply # "raise"
    THEN [state EXCEPT
            !.performance_report =
                Some(_parse_json_response(reply, "performance_report")),
            !.step = "report_complete"]
    ELSE [state EXCEPT
            !.performance_report = Some([error |-> "Report generation failed"]),
            !.step = "report_error"]

generate_architecture_comparison(state, reply) ==
    IF reply # "raise"
    THEN [state EXCEPT
            !.architecture_comparison =
                Some(_parse_json_response(reply, "architecture_comparison")),
            !.step = "architecture_complete"]
    ELSE [state EXCEPT
            !.architecture_comparison =
                Some([error |-> "Architecture comparison failed"]),
            !.step = "architecture_error"]

synthesize_feedback_NoFallback(state, reply) ==
    IF state.context.serializable /\ reply # "raise"
    THEN [state EXCEPT
            !.final_feedback =
                Some(IF reply = "feedback" THEN [parsed_by |-> "feedback_parser"]
                     ELSE _parse_json_response(reply, "final_feedback")),
            !.step = "complete"]
    ELSE [state EXCEPT !.step = "synthesis_error"]

synthesize_feedback(state, reply) ==
    IF state.context.serializable /\ reply # "raise"
    THEN [state EXCEPT
            !.final_feedback =
                Some(IF reply = "feedback" THEN [parsed_by |-> "feedback_parser"]
                     ELSE _parse_json_response(reply, "final_feedback")),
            !.step = "complete"]
    ELSE [state EXCEPT
            !.final_feedback = Some(_create_fallback_feedback),
            !.step = "synthesis_error"]

\* workflow.add_edge(...); END is "__end__"
WorkflowEdges ==
    [analyze |-> "report", report |-> "architecture",
     architecture |-> "synthesize", synthesize |-> "__end__"]

\* workflow.add_node(...): the node's function applied to the state
WorkflowNode(node, state, reply) ==
    CASE node = "analyze" -> analyze_answer(state, reply)
      [] node = "report" -> generate_performance_report(state, reply)
      [] node = "architecture" -> generate_architecture_comparison(state, reply)
      [] node = "synthesize" -> synthesize_feedback(state, reply)

\* generate_comprehensive_feedback up to the entry point of the workflow
generate_comprehensive_feedback(evaluation_data, context) ==
    /\ workflow.node \in {"idle", "__end__"}
    /\ workflow' =
          [node  |-> "analyze",
           state |-> [evaluation_data         |-> evaluation_data,
                      context                 |-> context,
                      step                    |-> "start",
                      answer_analysis         |-> None,
                      performance_report      |-> None,
                      architecture_comparison |-> None,
                      final_feedback          |-> None],
           path  |-> << >>]
    /\ UNCHANGED <<memVars, orchVars, adjustment, assessment, session_repository, svc>>

\* the compiled graph runs the node it stands at and follows its edge
WorkflowStep(reply) ==
    /\ workflow.node \in DOMAIN WorkflowEdges
    /\ workflow' =
          [node  |-> WorkflowEdges[workflow.node],
           state |-> WorkflowNode(workflow.node, workflow.state, reply),
           path  |-> Append(workflow.path, workflow.node)]
    /\ UNCHANGED <<memVars, orchVars, adjustment, assessment, session_repository, svc>>

CallerDicts == {[serializable |-> b] : b \in BOOLEAN}

GenerateComprehensiveFeedback ==
    \E evaluation_data \in CallerDicts, context \in CallerDicts :
        generate_comprehensive_feedback(evaluation_data, context)

RunWorkflowNode == \E reply \in LlmReplies : WorkflowStep(reply)

(***************************************************************************)
(* FeedbackSpec: runs of the comprehensive-feedback workflow with every    *)
(* reply of the language model at every stage.                             *)
(***************************************************************************)
FeedbackNext ==
    \/ GenerateComprehensiveFeedback
    \/ RunWorkflowNode

FeedbackSpec == Init /\ [][FeedbackNext]_vars

(***************************************************************************)
(* InterviewSession, InMemorySessionRepository and SessionService          *)
(***************************************************************************)
(* A str the code measures is a sequence of characters; a datetime is the  *)
(* clock `now`, in hours, and a duration is in seconds.  The repository    *)
(* keeps the entity objects themselves, so a method called on a stored     *)
(* session changes what the repository returns.                            *)
(***************************************************************************)
MinTopicLength == 5

DefaultMaxDurationMinutes == 60

SecondsPerHour == 3600

SessionStatus == {"active", "completed", "abandoned"}

\* str.strip()
RECURSIVE Strip(_)
Strip(str) ==
    IF str = << >> THEN str
    ELSE IF Head(str) = " " THEN Strip(Tail(str))
    ELSE IF str[Len(str)] = " " THEN Strip(SubSeq(str, 1, Len(str) - 1))
    ELSE str

\* str.upper()
Upper(str) ==
    CASE str = "completed" -> "COMPLETED"
      [] str = "abandoned" -> "ABANDONED"
      [] str = "active" -> "ACTIVE"
      [] OTHER -> str

InterviewSession(session_id, user_id, config) ==
    [session_id     |-> session_id,
     user_id        |-> user_id,
     config         |-> config,
     status         |-> "active",
     started_at     |-> now,
     ended_at       |-> None,
     total_duration |-> None,
     updated_at     |-> now]

_calculate_duration(session) ==
    LET end_time == IF session.ended_at # None THEN session.ended_at[1] ELSE now
    IN  (end_time - session.started_at) * SecondsPerHour

\* status, ended_at, total_duration and updated_at as complete_session,
\* abandon_session and update_session_status assign them
SetEnded(session, status) ==
    LET ended == [session EXCEPT !.status = status, !.ended_at = Some(now)]
    IN  [ended EXCEPT !.total_duration = Some(_calculate_duration(ended)),
                      !.updated_at = now]

EndSession_Always(session, status) == SetEnded(session, status)

\* complete_session (status "completed") and abandon_session ("abandoned")
EndSession(session, status) ==
    IF session.status = "active" THEN SetEnded(session, status) ELSE session

complete_session(session) == EndSession(session, "completed")

abandon_session(session) == EndSession(session, "abandoned")

extend_session(session, additional_minutes) ==
    IF session.status = "active"
    THEN [session EXCEPT
            !.config.max_duration_minutes = @ + additional_minutes,
            !.updated_at = now]
    ELSE session

\* InMemorySessionRepository.get_active_session_for_user
RECURSIVE FirstActive(_, _)
FirstActive(repository, session_ids) ==
    IF session_ids = << >> THEN None
    ELSE IF /\ Head(session_ids) \in DOMAIN repository._sessions
            /\ repository._sessions[Head(session_ids)].status = "active"
    THEN Some(repository._sessions[Head(session_ids)])
    ELSE FirstActive(repository, Tail(session_ids))

get_active_session_for_user(repository, user_id) ==
    FirstActive(repository,
                IF user_id \in DOMAIN repository._user_sessions
                THEN repository._user_sessions[user_id] ELSE << >>)

\* InMemorySessionRepository.create
repository_create(repository, session) ==
    [_sessions |-> DictSet(repository._sessions, session.session_id, session),
     _user_sessions |->
        DictSet(repository._user_sessions, session.user_id,
                Append(IF session.user_id \in DOMAIN repository._user_sessions
                       THEN repository._user_sessions[session.user_id]
                       ELSE << >>,
                       session.session_id))]

\* InMemorySessionRepository.delete
repository_delete(repository, session_id) ==
    LET user_id == repository._sessions[session_id].user_id
    IN  [_sessions |-> DictDel(repository._sessions, session_id),
         _user_sessions |->
            IF user_id \in DOMAIN repository._user_sessions
            THEN [repository._user_sessions EXCEPT ![user_id] =
                     SelectSeq(@, LAMBDA sid : sid # session_id)]
            ELSE repository._user_sessions]

\* the users user_repository.get_by_id finds
user_repository == {"u1", "u2"}

TopicTooShort_Untrimmed(topic) == topic = << >> \/ Len(topic) < MinTopicLength

\* not topic or len(topic.strip()) < 5
TopicTooShort(topic) == topic = << >> \/ Len(Strip(topic)) < MinTopicLength

ServiceFrame == UNCHANGED <<memVars, orchVars, adjustment, assessment, workflow>>

ServiceCall(op, args, raised) == [op |-> op, args |-> args, raised |-> raised]

\* SessionService.create_session; session_id is the value of uuid4()
create_session(user_id, topic, difficulty_level, session_id) ==
    LET args == <<user_id, topic, difficulty_level>>
        fails(exc) == /\ svc' = ServiceCall("create_session", args, exc)
                      /\ UNCHANGED session_repository
    IN  /\ IF user_id \notin user_repository
           THEN fails("ResourceNotFoundError")
           ELSE IF get_active_session_for_user(session_repository, user_id) # None
           THEN fails("ConflictError")
           ELSE IF TopicTooShort(topic)
           THEN fails("ValidationError")
           ELSE IF difficulty_level \notin Levels
           THEN fails("ValidationError")
           ELSE /\ session_repository' =
                      repository_create(session_repository,
                          InterviewSession(session_id, user_id,
                              [topic |-> topic,
                               difficulty_level |-> DifficultyLevel(difficulty_level),
                               max_duration_minutes |-> DefaultMaxDurationMinutes]))
                /\ svc' = ServiceCall("create_session", args, "")
        /\ ServiceFrame

\* SessionService.update_session_status
update_session_status(session_id, status) ==
    LET args == <<session_id, status>>
        session == session_repository._sessions[session_id]
    IN  /\ IF session_id \notin DOMAIN session_repository._sessions
           THEN /\ svc' = ServiceCall("update_session_status", args,
                                      "ResourceNotFoundError")
                /\ UNCHANGED session_repository
           ELSE IF Upper(status) \notin SessionStatus
           THEN /\ svc' = ServiceCall("update_session_status", args, "ValidationError")
                /\ UNCHANGED session_repository
           ELSE /\ session_repository' =
                      [session_repository EXCEPT !._sessions[session_id] =
                          IF Upper(status) = "active"
                          THEN [session EXCEPT !.status = "active", !.updated_at = now]
                          ELSE SetEnded(session, Upper(status))]
                /\ svc' = ServiceCall("update_session_status", args, "")
        /\ ServiceFrame

\* SessionService.delete_session
delete_session(session_id) ==
    /\ IF session_id \notin DOMAIN session_repository._sessions
       THEN /\ svc' = ServiceCall("delete_session", <<session_id>>,
                                  "ResourceNotFoundError")
            /\ UNCHANGED session_repository
       ELSE /\ session_repository' = repository_delete(session_repository, session_id)
            /\ svc' = ServiceCall("delete_session", <<session_id>>, "")
    /\ ServiceFrame

\* a method of InterviewSession called on the session stored under session_id
OnStoredSession(op, args, session_id, method(_)) ==
    /\ session_id \in DOMAIN session_repository._sessions
    /\ session_repository' =
          [session_repository EXCEPT !._sessions[session_id] = method(@)]
    /\ svc' = ServiceCall(op, args, "")
    /\ ServiceFrame

UserIds == user_repository \cup {"u0"}

Chats == <<"c", "h", "a", "t", "s">>

Topics == {<< >>, <<" ", "c", "h", "a", "t", " ">>, Chats, <<" ">> \o Chats}

DifficultyStrings == Levels \cup {"expert", "Beginner"}

StatusStrings == {"completed", "COMPLETED", "abandoned"}

AdditionalMinutes == 15

MaxStored == 1

MaxExtensions == 1

SessionUuids == 1..MaxStored

\* a call that fails is always made, one that stores a session only while a
\* session id is free
CreateSession(users, topics, difficulties) ==
    LET free == SessionUuids \ DOMAIN session_repository._sessions
    IN  \E user_id \in users, topic \in topics, difficulty_level \in difficulties :
          \E session_id \in IF free = {} THEN {0} ELSE free :
              /\ create_session(user_id, topic, difficulty_level, session_id)
              /\ free = {} => svc'.raised # ""

UpdateSessionStatus ==
    \E session_id \in SessionUuids, status \in StatusStrings :
        update_session_status(session_id, status)

DeleteSession == \E session_id \in SessionUuids : delete_session(session_id)

CompleteSession ==
    \E session_id \in SessionUuids :
        OnStoredSession("complete_session", <<session_id>>, session_id,
                        complete_session)

AbandonSession ==
    \E session_id \in SessionUuids :
        OnStoredSession("abandon_session", <<session_id>>, session_id,
                        abandon_session)

ExtendSession ==
    \E session_id \in SessionUuids :
        /\ session_id \in DOMAIN session_repository._sessions
        /\ session_repository._sessions[session_id].status = "active"
              => session_repository._sessions[session_id].config.max_duration_minutes
                   < DefaultMaxDurationMinutes + MaxExtensions * AdditionalMinutes
        /\ OnStoredSession("extend_session", <<session_id, AdditionalMinutes>>,
                           session_id,
                           LAMBDA session : extend_session(session, AdditionalMinutes))

(***************************************************************************)
(* ServiceSpec: the SessionService over the in-memory repository, with     *)
(* every kind of user, topic and difficulty string.                        *)
(***************************************************************************)
ServiceNext ==
    \/ CreateSession(UserIds, Topics, DifficultyStrings)
    \/ UpdateSessionStatus
    \/ DeleteSession
    \/ CompleteSession

ServiceSpec == Init /\ [][ServiceNext]_vars

(***************************************************************************)
(* EntitySpec: the methods of InterviewSession on stored sessions while    *)
(* the clock advances.                                                     *)
(***************************************************************************)
EntityHours == {1, 2}

EntityNext ==
    \/ CreateSession({"u1"}, {Chats}, {"beginner"})
    \/ CompleteSession
    \/ AbandonSession
    \/ ExtendSession
    \/ UpdateSessionStatus
    \/ Tick(EntityHours)

EntitySpec == Init /\ [][EntityNext]_vars

(***************************************************************************)
(* Claims on the ConversationMemory (checked under MemSpec)                *)
(***************************************************************************)
NoDuplicates(lst) == \A i, j \in DOMAIN lst : lst[i] = lst[j] => i = j

\* C1: for every max_interactions_per_session >= 1, whenever add_interaction
\* has returned, a session holds at most max_interactions_per_session
\* interactions.
C1_BoundInvariant ==
    \A id \in DOMAIN sessions :
        Len(sessions[id].interactions) <= max_interactions_per_session

\* C2: every add_interaction on a session, evicting or not, leaves
\* covered_topics free of duplicates, with every label it had in its place,
\* and holding exactly the labels it had plus the labels passed; a session
\* starts with no covered topic.  Hence covered_topics is always the set of
\* the labels passed since the session was initialized.
C2_CoverageUnion ==
    [][\A id \in Ids :
        /\ (\E t \in {"chat_system"}, d \in {DifficultyLevel("beginner")} :
                initialize_session(id, t, d))
              => sessions'[id].covered_topics = << >>
        /\ \A inp \in AddInputs :
              (id \in DOMAIN sessions /\ AddWith(id, inp)) =>
                LET before == sessions[id].covered_topics
                    after  == sessions'[id].covered_topics
                    passed == IF inp.expected_topics = None THEN {}
                              ELSE Range(inp.expected_topics[1])
                IN  /\ NoDuplicates(after)
                    /\ Len(after) >= Len(before)
                    /\ SubSeq(after, 1, Len(before)) = before
                    /\ Range(after) = Range(before) \cup passed]_vars

\* C2 witness: after an eviction the session still covers a topic that none
\* of the interactions it holds mentions, and covers three distinct topics.
C2_Witness ==
    \E id \in DOMAIN sessions :
        /\ sessions[id].context_summary # EmptyDict
        /\ Cardinality(Range(sessions[id].covered_topics)) = 3
        /\ Range(sessions[id].covered_topics)
              \ Range(FlattenTopics(sessions[id].interactions)) # {}

\* C3: an add_interaction that brings the count to
\* max_interactions_per_session + 1 leaves exactly the
\* max_interactions_per_session // 2 most recent interactions, unmodified and
\* in order, and context_summary.summarized_interactions is the number
\* discarded; an add_interaction that stays within the bound removes nothing
\* and leaves context_summary unchanged.
C3_EvictionCorrectness ==
    [][\A id \in Ids, inp \in AddInputs :
        (id \in DOMAIN sessions /\ AddWith(id, inp)) =>
            LET before  == sessions[id].interactions
                after   == sessions'[id].interactions
                summary == sessions'[id].context_summary
                keep    == max_interactions_per_session \div 2
                added   == InteractionMemory(now, inp.question, inp.answer,
                               inp.evaluation, None, None, inp.question_type,
                               inp.expected_topics)
                all     == Append(before, added)
            IN  /\ Len(all) = max_interactions_per_session + 1 =>
                      /\ Len(after) = keep
                      /\ \A i \in 1..keep : after[i] = all[Len(all) - keep + i]
                      /\ "summarized_interactions" \in DOMAIN summary
                      /\ summary.summarized_interactions = Len(all) - keep
                /\ Len(all) <= max_interactions_per_session =>
                      /\ after = all
                      /\ summary = sessions[id].context_summary]_vars

\* C22: current_question is null from initialize_session until the first
\* add_interaction with a non-empty question, and from then on is the
\* question of the most recent add_interaction that passed one; an
\* add_interaction without a question, and the eviction of the interaction
\* that carried the question, leave it unchanged.  (Checked under CoverSpec.)
C22_CurrentQuestion ==
    [][\A id \in Ids :
          /\ initialize_session(id, "chat_system", DifficultyLevel("beginner"))
                => sessions'[id].current_question = None
          /\ \A inp \in AddInputs :
                (id \in DOMAIN sessions /\ AddWith(id, inp))
                   => sessions'[id].current_question
                         = IF inp.question # None /\ inp.question # Some("")
                           THEN inp.question
                           ELSE sessions[id].current_question]_vars

\* the current question outlived the interaction that carried it
C22_Witness ==
    \E id \in DOMAIN sessions :
        /\ sessions[id].current_question = Some("Q1")
        /\ sessions[id].context_summary # EmptyDict
        /\ sessions[id].interactions # << >>
        /\ \A i \in DOMAIN sessions[id].interactions :
              sessions[id].interactions[i].question = None

\* the topic labels of a list of interactions
LabelsOf(interactions) ==
    UNION {Range(interactions[i].topics_covered) : i \in DOMAIN interactions}

\* C19: after every eviction context_summary describes the slice that this
\* eviction discarded and nothing else: its count, its first and last
\* timestamp, its distinct topics and kinds and the number of its evaluated
\* interactions; on a later eviction the count of the earlier summary is not
\* added, so summarized_interactions is not the cumulative number evicted.
C19_SummaryOverwritten ==
    [][\A id \in DOMAIN sessions, inp \in AddInputs :
          AddWith(id, inp) =>
             LET added     == InteractionMemory(now, inp.question, inp.answer,
                                  inp.evaluation, None, None, inp.question_type,
                                  inp.expected_topics)
                 all       == Append(sessions[id].interactions, added)
                 after     == sessions'[id].interactions
                 discarded == SubSeq(all, 1, Len(all) - Len(after))
                 earlier   == sessions[id].context_summary
                 summary   == sessions'[id].context_summary
             IN  Len(after) < Len(all) =>
                    /\ summary.summarized_interactions = Len(discarded)
                    /\ summary.time_period.start = isoformat(discarded[1].timestamp)
                    /\ summary.time_period.end
                          = isoformat(discarded[Len(discarded)].timestamp)
                    /\ summary.topics_discussed = LabelsOf(discarded)
                    /\ summary.question_types
                          = {discarded[i].question_type : i \in DOMAIN discarded} \ {""}
                    /\ summary.evaluation_count
                          = Cardinality({i \in DOMAIN discarded :
                                           Truthy(discarded[i].evaluation)})
                    /\ earlier # EmptyDict
                          => summary.summarized_interactions
                                < earlier.summarized_interactions + Len(discarded)]_vars

\* a summary written by a second eviction: a covered topic is neither in the
\* summary nor in an interaction still held, so the interaction that carried
\* it was discarded by an earlier eviction
C19_Witness ==
    \E id \in DOMAIN sessions :
        /\ sessions[id].context_summary # EmptyDict
        /\ \E topic \in Range(sessions[id].covered_topics) :
              /\ topic \notin sessions[id].context_summary.topics_discussed
              /\ topic \notin LabelsOf(sessions[id].interactions)

(***************************************************************************)
(* Claims on the read operations (checked under ReadSpec)                  *)
(***************************************************************************)
\* the last call was operation op on a session id the store does not know
UnknownCall(op) == ret.op = op /\ ret.id \notin DOMAIN sessions

C11_UnknownAddChangesNothing ==
    [][(ret'.op = "add_interaction" /\ ret'.id \notin DOMAIN sessions)
          => /\ ret'.raised = "ValueError"
             /\ sessions' = sessions
             /\ performance_cache' = performance_cache
             /\ ret'.id \notin DOMAIN performance_cache']_vars

\* add_interaction raised on an id the store never knew, while the store
\* holds a session with interactions and performance samples
C11_Witness ==
    /\ UnknownCall("add_interaction")
    /\ ret.raised = "ValueError"
    /\ \E id \in DOMAIN sessions :
          /\ sessions[id].interactions # << >>
          /\ id \in DOMAIN performance_cache
          /\ performance_cache[id] # << >>

\* C15: get_conversation_history on a known session with n interactions
\* returns, for every limit >= 0, the last min(limit, n) interactions in
\* chronological order, and all n without a limit; an entry carries an
\* evaluation only when include_evaluations is true and the interaction has
\* one; on an unknown session it returns an empty list without error.
C15_HistoryLimit ==
    [][\A id \in Ids, args \in HistoryArgs :
          (/\ ret'.op = "get_conversation_history"
           /\ get_conversation_history(id, args[1], args[2]))
             => /\ ret'.raised = ""
                /\ IF id \notin DOMAIN sessions
                   THEN ret'.value = Some(<< >>)
                   ELSE LET value == ret'.value[1]
                            all   == sessions[id].interactions
                            n     == Len(all)
                            k     == IF args[1] = None THEN n
                                     ELSE Min(args[1][1], n)
                        IN  /\ Len(value) = k
                            /\ \A i \in 1..Min(k, Len(value)) :
                                  /\ value[i].timestamp
                                        = isoformat(all[n - k + i].timestamp)
                                  /\ value[i].question = all[n - k + i].question
                                  /\ value[i].answer = all[n - k + i].answer
                                  /\ ("evaluation" \in DOMAIN value[i])
                                        <=> (args[2] /\ Truthy(all[n - k + i].evaluation))]_vars

\* the interaction has a topic label that contains the query, both lowercased
HasTopicLike(interaction, query_topic) ==
    \E i \in DOMAIN interaction.topics_covered :
        LET label == interaction.topics_covered[i]
        IN  \E at \in 1..Len(label) :
               /\ at + Len(query_topic) - 1 <= Len(label)
               /\ \A c \in 1..Len(query_topic) :
                     Lower(label[at + c - 1]) = Lower(query_topic[c])

\* C16: search_similar_interactions returns the interactions that have a
\* topic label containing query_topic as a case-insensitive substring, and
\* whose kind is the filter when one is given, cut to the last
\* min(limit, matches) of them, in chronological order.
C16_SearchSimilar ==
    [][\A id \in Ids, args \in SearchArgs :
          (/\ ret'.op = "search_similar_interactions"
           /\ search_similar_interactions(id, args[1], args[2], args[3]))
             => /\ ret'.raised = ""
                /\ id \in DOMAIN sessions
                      => LET value   == ret'.value[1]
                             matches == SelectSeq(sessions[id].interactions,
                                           LAMBDA x :
                                              /\ HasTopicLike(x, args[1])
                                              /\ args[2] # None
                                                    => x.question_type = args[2][1])
                             m       == Len(matches)
                             k       == Min(args[3], m)
                         IN  /\ Len(value) = k
                             /\ \A i \in 1..Min(k, Len(value)) :
                                   /\ value[i].timestamp
                                         = isoformat(matches[m - k + i].timestamp)
                                   /\ value[i].question = matches[m - k + i].question
                                   /\ value[i].answer = matches[m - k + i].answer
                                   /\ value[i].topics_covered
                                         = matches[m - k + i].topics_covered]_vars

\* the performance samples held for a session id
SamplesOf(cache, id) == IF id \in DOMAIN cache THEN cache[id] ELSE << >>

\* an add_interaction with an evaluation appends one sample to the session's
\* samples, one without appends none; no sample is removed or reordered
SamplesAppendOnly ==
    \A id \in DOMAIN sessions, inp \in AddInputs :
        AddWith(id, inp) =>
            LET before == SamplesOf(performance_cache, id)
                after  == SamplesOf(performance_cache', id)
            IN  /\ IF Truthy(inp.evaluation)
                   THEN /\ Len(after) = Len(before) + 1
                        /\ SubSeq(after, 1, Len(before)) = before
                        /\ after[Len(after)].evaluation = inp.evaluation[1]
                   ELSE after = before
                /\ \A o \in DOMAIN performance_cache \ {id} :
                      SamplesOf(performance_cache', o) = performance_cache[o]

\* get_performance_trends returns the last min(window, count) samples
TrendsWindow ==
    \A id \in Ids, window \in TrendWindows :
        (/\ ret'.op = "get_performance_trends"
         /\ get_performance_trends(id, window))
           => LET samples == SamplesOf(performance_cache, id)
                  k       == Min(window, Len(samples))
              IN  /\ ret'.raised = ""
                  /\ ret'.value
                        = Some(SubSeq(samples, Len(samples) - k + 1, Len(samples)))

\* C20: the performance samples of a session are append-only: each
\* add_interaction with an evaluation appends exactly one sample, one
\* without appends none, and none is removed or reordered;
\* get_performance_trends(id, window) returns the last min(window, count)
\* samples in chronological order.
C20_PerformanceHistory ==
    [][SamplesAppendOnly /\ TrendsWindow]_vars

\* C21: get_topic_coverage counts over the interactions of the session:
\* total_topics_mentioned is the number of distinct labels across them and
\* is never smaller than the number of covered_topics, which are among the
\* mentioned topics; topic_frequency[t] is the number of interactions tagged
\* t; most_discussed is a topic of maximal frequency, none when no topic was
\* mentioned; coverage_depth is the number of topic mentions over
\* max(1, interaction count).
C21_TopicCoverage ==
    [][\A id \in DOMAIN sessions :
          (/\ ret'.op = "get_topic_coverage"
           /\ get_topic_coverage(id))
             => LET cov      == ret'.value[1]
                    all      == sessions[id].interactions
                    labels   == LabelsOf(all)
                    tagged(t) == Cardinality({i \in DOMAIN all :
                                    t \in Range(all[i].topics_covered)})
                IN  /\ ret'.raised = ""
                    /\ cov.total_topics_mentioned = Cardinality(labels)
                    /\ cov.total_topics_mentioned >= Len(cov.covered_topics)
                    /\ Range(cov.covered_topics) \subseteq labels
                    /\ DOMAIN cov.topic_frequency = labels
                    /\ \A t \in labels : cov.topic_frequency[t] = tagged(t)
                    /\ IF labels = {}
                       THEN cov.most_discussed = None
                       ELSE /\ cov.most_discussed # None
                            /\ cov.most_discussed[1] \in labels
                            /\ \A t \in labels :
                                  cov.topic_frequency[t]
                                     <= cov.topic_frequency[cov.most_discussed[1]]
                    /\ cov.coverage_depth
                          = <<Len(FlattenTopics(all)), Max(1, Len(all))>>]_vars

\* C23: initialize_session on an id that already exists leaves an empty
\* session: no interactions, no covered topics, a null current question, an
\* empty context summary, and no performance sample recorded before it is
\* returned by get_performance_trends or counted in the performance summary
\* of get_session_context.
C23_ReinitializeIsEmpty ==
    [][\A id \in DOMAIN sessions :
          initialize_session(id, "chat_system", DifficultyLevel("beginner"))
             => /\ sessions'[id].interactions = << >>
                /\ sessions'[id].covered_topics = << >>
                /\ sessions'[id].current_question = None
                /\ sessions'[id].context_summary = EmptyDict
                /\ get_performance_trends_value(id, 10)' = << >>
                /\ _get_performance_summary(performance_cache', id) = EmptyDict]_vars

(***************************************************************************)
(* Claims on the MainOrchestrator (checked under Spec)                     *)
(***************************************************************************)
\* a step in which an agent call of the turn `task` fails
AgentCallFails(task) ==
    \/ process_user_answer_agent(task, FALSE)
    \/ process_user_answer_qgen(task, FALSE)

MarkedFallback(outcome) ==
    /\ outcome.raised = ""
    /\ "fallback" \in DOMAIN outcome.payload
    /\ outcome.payload.fallback = TRUE

\* C4: for a session known to the orchestrator, a failure of any agent call
\* made during process_user_answer is caught: the call does not raise and
\* returns a payload carrying fallback = TRUE.
C4_AgentFailureYieldsMarkedFallback ==
    [][\A task \in InFlightTasks :
          (task.id \in DOMAIN current_sessions /\ AgentCallFails(task))
             => MarkedFallback(resp')]_vars

\* C5: a process_user_answer turn in which an agent call fails ends as a full
\* fallback: the payload is the fallback one, the memory gains no interaction
\* and questions_asked, last_question and performance_history stay as they
\* were.
C5_FailedTurnIsFullFallback ==
    [][\A task \in InFlightTasks :
          (task.id \in DOMAIN current_sessions /\ AgentCallFails(task))
             => /\ resp'.raised = ""
                /\ resp'.payload.type = "fallback"
                /\ current_sessions' = current_sessions
                /\ sessions' = sessions]_vars

\* C6: a process_user_answer call that returns a non-fallback payload leaves
\* the session's memory with one interaction more, recording the user's answer
\* with the question of the turn.
C6_TurnAppendedToMemory ==
    [][\A task \in InFlightTasks, agent_ok \in BOOLEAN :
          (/\ process_user_answer_qgen(task, agent_ok)
           /\ resp'.raised = ""
           /\ "fallback" \notin DOMAIN resp'.payload)
             => /\ task.id \in DOMAIN sessions
                /\ task.id \in DOMAIN sessions'
                /\ Len(sessions'[task.id].interactions)
                      = Len(sessions[task.id].interactions) + 1
                /\ LET last == sessions'[task.id].interactions[
                                   Len(sessions'[task.id].interactions)]
                   IN  /\ last.answer = Some(task.user_answer)
                       /\ last.question = Some(resp'.payload.message)]_vars

\* C7: start_interview puts the session into the orchestrator's map and the
\* memory before it awaits the agent; when the agent call fails it returns,
\* without raising, the templated question marked fallback = TRUE and leaves
\* both maps as they are; only cleanup_session removes a session from the
\* map, and process_user_answer on an id of the map is accepted.
C7_StartSurvivesAgentFailure ==
    [][/\ \A id \in Ids, difficulty \in Difficulties :
             start_interview_call(id, "chat_system", difficulty, EmptyDict)
                => /\ id \in DOMAIN current_sessions'
                   /\ id \in DOMAIN sessions'
       /\ \A task \in InFlightTasks :
             start_interview_resume(task, FALSE)
                => /\ MarkedFallback(resp')
                   /\ resp'.op = "start_interview"
                   /\ resp'.payload.question =
                         "Let's design a chat system system. What would you say are the key requirements we should consider?"
                   /\ resp'.payload.session_id = task.id
                   /\ current_sessions' = current_sessions
                   /\ sessions' = sessions
       /\ \A id \in DOMAIN current_sessions \ DOMAIN current_sessions' :
             orch_cleanup_session(id)
       /\ \A id \in DOMAIN current_sessions :
             process_user_answer_call(id, "A1")
                => /\ resp' = resp
                   /\ \E task \in BagToSet(tasks') :
                         /\ task.op = "process_user_answer"
                         /\ task.id = id
                         /\ CopiesIn(task, tasks') = CopiesIn(task, tasks) + 1]_vars

\* an answer accepted on a session whose start fell back
C7_Witness ==
    /\ MarkedFallback(resp)
    /\ resp.op = "start_interview"
    /\ resp.id \in DOMAIN current_sessions
    /\ resp.id \in DOMAIN sessions
    /\ "last_question" \notin DOMAIN current_sessions[resp.id]
    /\ TurnsInFlight(resp.id) = 1
    /\ BagCardinality(tasks) = 1

\* C8: two process_user_answer turns on one session id are never in flight
\* together: no state has both past their read of the session state and
\* before their update of it.
C8_TurnsSerialized ==
    \A id \in Ids : TurnsInFlight(id) <= 1

\* what the orchestrator and its memory hold on a session id
SessionView(id, store, cache, current, inflight) ==
    <<IF id \in DOMAIN store THEN Some(store[id]) ELSE None,
      IF id \in DOMAIN cache THEN Some(cache[id]) ELSE None,
      IF id \in DOMAIN current THEN Some(current[id]) ELSE None,
      [task \in {t \in BagToSet(inflight) : t.id = id} |-> CopiesIn(task, inflight)]>>

\* a step of an operation on session id a
OperationOn(a) ==
    \/ \E difficulty \in Difficulties :
          start_interview_call(a, "chat_system", difficulty, EmptyDict)
    \/ \E task \in InFlightTasks, agent_ok \in BOOLEAN :
          /\ task.id = a
          /\ \/ start_interview_resume(task, agent_ok)
             \/ process_user_answer_agent(task, agent_ok)
             \/ process_user_answer_qgen(task, agent_ok)
    \/ process_user_answer_call(a, "A1")
    \/ get_session_insights(a)
    \/ orch_cleanup_session(a)

\* C9: every operation on a session id A (start_interview with its
\* add_interaction, process_user_answer, get_session_insights with its memory
\* read, cleanup_session) leaves what the memory and the orchestrator hold on
\* another id B unchanged, whatever is in flight.
\* (stated by contraposition: a step that changes what is held on B is not an
\* operation on another id)
C9_CrossSessionIsolation ==
    [][\A b \in Ids :
          SessionView(b, sessions', performance_cache', current_sessions', tasks')
             # SessionView(b, sessions, performance_cache, current_sessions, tasks)
          => \A a \in Ids \ {b} : ~OperationOn(a)]_vars

\* s1 was cleaned up while s2 held an interaction and had a turn in flight
C9_Witness ==
    /\ resp.op = "cleanup_session"
    /\ resp.id = "s1"
    /\ "s2" \in DOMAIN sessions
    /\ Len(sessions["s2"].interactions) >= 1
    /\ "s2" \in DOMAIN current_sessions
    /\ TurnsInFlight("s2") = 1

(***************************************************************************)
(* Claims on the expiry sweep (checked under SweepSpec)                    *)
(***************************************************************************)
\* C13: cleanup_expired_sessions removes exactly the sessions whose
\* start_time is earlier than utcnow minus max_memory_hours, with their
\* performance samples, and leaves every other session and its samples
\* present and unchanged.
C13_SweepRemovesExactlyExpired ==
    [][CallCleanupExpiredSessions
          => /\ ret'.raised = ""
             /\ DOMAIN sessions' \subseteq DOMAIN sessions
             /\ DOMAIN performance_cache' \subseteq DOMAIN performance_cache
             /\ \A id \in DOMAIN sessions :
                   IF sessions[id].start_time + max_memory_hours < now
                   THEN /\ id \notin DOMAIN sessions'
                        /\ id \notin DOMAIN performance_cache'
                   ELSE /\ id \in DOMAIN sessions'
                        /\ sessions'[id] = sessions[id]
                        /\ id \in DOMAIN performance_cache
                              => /\ id \in DOMAIN performance_cache'
                                 /\ performance_cache'[id] = performance_cache[id]]_vars

\* the sweep ran with 24 hours of memory and left only a session started one
\* hour ago, with its performance samples
C13_Witness ==
    /\ ret.op = "cleanup_expired_sessions"
    /\ max_memory_hours = DefaultMemoryHours
    /\ DOMAIN sessions = {"s2"}
    /\ sessions["s2"].start_time = now - 1
    /\ sessions["s2"].interactions # << >>
    /\ "s2" \in DOMAIN performance_cache

\* C17: get_session_context on a known session reports interaction_count
\* equal to the number of interactions held, covered_topics equal to the
\* session's, recent_interactions equal to the last min(5, n) interactions in
\* chronological order without their evaluations, and a trend flag that is
\* "improving" iff the session has at least 2 performance samples.
C17_ContextContents ==
    [][\A id \in DOMAIN sessions :
          (/\ ret'.op = "get_session_context"
           /\ get_session_context(id))
             => /\ ret'.raised = ""
                /\ LET ctx     == ret'.value[1]
                       all     == sessions[id].interactions
                       n       == Len(all)
                       k       == Min(RecentLimit, n)
                       samples == IF id \in DOMAIN performance_cache
                                  THEN Len(performance_cache[id]) ELSE 0
                   IN  /\ ctx.interaction_count = n
                       /\ ctx.covered_topics = sessions[id].covered_topics
                       /\ Len(ctx.recent_interactions) = k
                       /\ \A i \in 1..k :
                             /\ ctx.recent_interactions[i].question
                                   = all[n - k + i].question
                             /\ ctx.recent_interactions[i].answer
                                   = all[n - k + i].answer
                             /\ ctx.recent_interactions[i].timestamp
                                   = isoformat(all[n - k + i].timestamp)
                             /\ "evaluation" \notin DOMAIN ctx.recent_interactions[i]
                       /\ (/\ "recent_trend" \in DOMAIN ctx.performance_summary
                           /\ ctx.performance_summary.recent_trend = "improving")
                             <=> samples >= 2]_vars

(***************************************************************************)
(* Claims on the orchestrator and its memory over time (checked under      *)
(* OwnSpec)                                                                *)
(***************************************************************************)
\* what is held on the session ids other than id
Others(dict, id) == [o \in DOMAIN dict \ {id} |-> dict[o]]

\* C12: cleanup_session never raises; it leaves the id in none of the
\* orchestrator's map, the memory's sessions and the performance samples,
\* and leaves what is held on other ids alone; on an id that is in none of
\* them it changes nothing, so that a second call leaves the state of the
\* first.
C12_CleanupIdempotentTotal ==
    [][\A id \in Ids :
          orch_cleanup_session(id)
             => /\ resp'.raised = ""
                /\ id \notin DOMAIN current_sessions'
                /\ id \notin DOMAIN sessions'
                /\ id \notin DOMAIN performance_cache'
                /\ Others(current_sessions', id) = Others(current_sessions, id)
                /\ Others(sessions', id) = Others(sessions, id)
                /\ Others(performance_cache', id) = Others(performance_cache, id)
                /\ (/\ id \notin DOMAIN current_sessions
                    /\ id \notin DOMAIN sessions
                    /\ id \notin DOMAIN performance_cache)
                      => UNCHANGED <<current_sessions, sessions, performance_cache>>]_vars

\* cleanup_session returned on an id to which interactions had been added,
\* before any session could expire
C12_Witness ==
    /\ resp.op = "cleanup_session"
    /\ resp.raised = ""
    /\ ret.op = "add_interaction"
    /\ ret.raised = ""
    /\ ret.id = resp.id
    /\ now = 0
    /\ resp.id \notin DOMAIN current_sessions
    /\ resp.id \notin DOMAIN sessions
    /\ resp.id \notin DOMAIN performance_cache

\* C18: every session id for which the orchestrator holds session state has
\* a SessionMemory in the memory, after any sequence of start_interview,
\* process_user_answer, cleanup_session and cleanup_expired_sessions.
C18_Ownership ==
    DOMAIN current_sessions \subseteq DOMAIN sessions

(***************************************************************************)
(* Claims on the DifficultyAdaptorAgent (checked under AdaptSpec)          *)
(***************************************************************************)
\* the LLM call failed or its output did not parse into a DifficultyAdjustment
NoParsedReply(call) ==
    \/ call.reply = None
    \/ call.reply[1].raised
    \/ call.reply[1].content = None
    \/ call.reply[1].content[1].current_difficulty \notin Levels
    \/ call.reply[1].content[1].recommended_difficulty \notin Levels
    \/ call.reply[1].content[1].confidence_in_recommendation > 10

\* C14: should_adjust_difficulty never raises and recommends one of
\* beginner, intermediate, advanced, whatever the performance history, the
\* current level and the reply of the LLM; when the call of the LLM fails or
\* its output does not parse, it recommends the current level with
\* adjustment_needed = FALSE.
C14_DifficultyClamp ==
    adjustment.pc = "done"
       => /\ adjustment.outcome.raised = ""
          /\ adjustment.outcome.value # None
          /\ adjustment.outcome.value[1].recommended_difficulty \in Levels
          /\ NoParsedReply(adjustment)
                => /\ adjustment.outcome.value[1].recommended_difficulty
                         = adjustment.current_difficulty.value
                   /\ ~adjustment.outcome.value[1].adjustment_needed

\* five evaluations of 9.5 at advanced, the LLM recommending a level beyond
\* advanced: the call returned advanced
C14_Witness ==
    /\ adjustment.pc = "done"
    /\ adjustment.performance_history = HighScores
    /\ adjustment.current_difficulty = DifficultyLevel("advanced")
    /\ adjustment.reply # None
    /\ ~adjustment.reply[1].raised
    /\ adjustment.reply[1].content # None
    /\ adjustment.reply[1].content[1].recommended_difficulty = "expert"
    /\ adjustment.outcome.raised = ""
    /\ adjustment.outcome.value[1].recommended_difficulty = "advanced"

(***************************************************************************)
(* Claims on the assess_difficulty tool (checked under ToolSpec)           *)
(***************************************************************************)
LevelUp(level) ==
    CASE level = "beginner" -> "intermediate"
      [] level = "intermediate" -> "advanced"
      [] OTHER -> "advanced"

LevelDown(level) ==
    CASE level = "advanced" -> "intermediate"
      [] level = "intermediate" -> "beginner"
      [] OTHER -> "beginner"

\* C24: for every current level and every average score the tool suggests
\* one of beginner, intermediate, advanced: the next level up (the same at
\* advanced) when the average is above 8, the next level down (the same at
\* beginner) when it is below 4, the current level otherwise.
C24_ToolClampsAndSteps ==
    (/\ assessment.called
     /\ assessment.performance_indicators.text = "object"
     /\ assessment.performance_indicators.object.average_score # None
     /\ "number" \in DOMAIN assessment.performance_indicators.object.average_score[1])
       => LET level == assessment.current_difficulty
              score == assessment.performance_indicators.object.average_score[1].number
          IN  /\ ~assessment.result.error
              /\ assessment.result.suggested_level \in Levels
              /\ assessment.result.suggested_level
                    = IF score > 8 THEN LevelUp(level)
                      ELSE IF score < 4 THEN LevelDown(level)
                      ELSE level

(***************************************************************************)
(* Claims on the interview phase (checked under Spec)                      *)
(***************************************************************************)
PhaseStage(phase) ==
    CASE phase = InterviewPhase[1] -> 0
      [] phase = InterviewPhase[5] -> 2
      [] OTHER -> 1

PhaseFollows(before, after) ==
    \/ after = before
    \/ PhaseStage(after) = PhaseStage(before) + 1
    \/ PhaseStage(after) = 1 /\ PhaseStage(before) = 1

\* C25: a session's phase is OPENING when start_interview returns, every
\* later change of the phase follows OPENING -> {ARCHITECTURE, DEEP_DIVE,
\* OPTIMIZATION} -> WRAP_UP without returning to an earlier phase, and a
\* process_user_answer call on a known session is never refused.
C25_PhaseOrder ==
    [][/\ \A id \in DOMAIN current_sessions' :
            /\ current_sessions'[id].phase \in Range(InterviewPhase)
            /\ (resp'.op = "start_interview" /\ resp'.id = id /\ resp' # resp)
                 => current_sessions'[id].phase = "opening"
            /\ id \in DOMAIN current_sessions
                 => PhaseFollows(current_sessions[id].phase,
                                 current_sessions'[id].phase)
       /\ (resp' # resp /\ resp'.op = "process_user_answer"
             /\ resp'.raised = "ValueError")
            => resp'.id \notin DOMAIN current_sessions]_vars

C25_Witness ==
    \E id \in DOMAIN current_sessions :
        /\ current_sessions[id].phase = "opening"
        /\ current_sessions[id].questions_asked >= 2
        /\ resp.op = "process_user_answer"
        /\ resp.id = id
        /\ resp.raised = ""

(***************************************************************************)
(* Claims on the comprehensive-feedback workflow (checked under            *)
(* FeedbackSpec)                                                           *)
(***************************************************************************)
StageOrder == <<"analyze", "report", "architecture", "synthesize">>

StageOutput ==
    [analyze |-> "answer_analysis", report |-> "performance_report",
     architecture |-> "architecture_comparison", synthesize |-> "final_feedback"]

MalformedCreate(call) ==
    /\ call.op = "create_session"
    /\ \/ call.args[3] \notin {"beginner", "intermediate", "advanced"}
       \/ Len(Strip(call.args[2])) < 5

\* C27 as stated: create_session with an unknown difficulty string, or with
\* a topic shorter than 5 characters after trimming, fails with
\* ValidationError and leaves the session repository unchanged.
C27_MalformedIsValidationError ==
    [][MalformedCreate(svc')
         => /\ svc'.raised = "ValidationError"
            /\ session_repository' = session_repository]_vars

\* C27 amended: such a call always fails and leaves the session repository
\* unchanged; it fails with ResourceNotFoundError for an unknown user, with
\* ConflictError for a user who has an active session, and with
\* ValidationError for a known user without an active session.
C27_ValidationBeforeMutation ==
    [][MalformedCreate(svc')
         => /\ session_repository' = session_repository
            /\ svc'.raised =
                  IF svc'.args[1] \notin user_repository
                  THEN "ResourceNotFoundError"
                  ELSE IF get_active_session_for_user(session_repository,
                                                      svc'.args[1]) # None
                  THEN "ConflictError"
                  ELSE "ValidationError"]_vars

C27_Witness ==
    /\ MalformedCreate(svc)
    /\ svc.args[2] # << >>
    /\ Len(svc.args[2]) >= 5
    /\ svc.raised = "ValidationError"
    /\ session_repository._sessions # EmptyDict
    /\ svc.args[1] \notin DOMAIN session_repository._user_sessions

(***************************************************************************)
(* Claims on the InterviewSession entity (checked under EntitySpec)        *)
(***************************************************************************)
Terminal == {"completed", "abandoned"}

\* C30: the status of a session changes only from active to completed or
\* abandoned, with ended_at and total_duration set at that moment; once it
\* is completed or abandoned, no later call changes status, ended_at,
\* total_duration or max_duration_minutes.
C30_TerminalIsAbsorbing ==
    [][\A id \in DOMAIN session_repository._sessions
                   \cap DOMAIN session_repository'._sessions :
          LET before == session_repository._sessions[id]
              after == session_repository'._sessions[id]
          IN  /\ after.status # before.status
                   => /\ before.status = "active"
                      /\ after.status \in Terminal
                      /\ after.ended_at = Some(now)
                      /\ after.total_duration
                            = Some((now - before.started_at) * SecondsPerHour)
              /\ before.status \in Terminal
                   => /\ after.status = before.status
                      /\ after.ended_at = before.ended_at
                      /\ after.total_duration = before.total_duration
                      /\ after.config.max_duration_minutes
                            = before.config.max_duration_minutes]_vars

C30_Witness ==
    /\ svc.op \in {"complete_session", "abandon_session", "extend_session"}
    /\ \E id \in DOMAIN session_repository._sessions :
          LET session == session_repository._sessions[id]
          IN  /\ svc.args[1] = id
              /\ session.status \in Terminal
              /\ session.status # IF svc.op = "complete_session"
                                  THEN "completed" ELSE "abandoned"
              /\ session.ended_at[1] < now
              /\ session.total_duration[1] > 0

(***************************************************************************)
(* Claims on turns that outlive their session (checked under Spec)         *)
(***************************************************************************)
\* C28: a process_user_answer turn that resumes after cleanup_session has
\* removed its session ends by returning a follow-up or a payload marked
\* fallback, raises nothing, and leaves the id absent from
\* current_sessions, from the memory's sessions and from its
\* performance_cache.
C28_SuspendedTurnSurvivesCleanup ==
    [][\A task \in InFlightTasks :
          (/\ task.op = "process_user_answer"
           /\ task.id \notin DOMAIN current_sessions
           /\ tasks' = Finish(task))
            => /\ resp'.op = "process_user_answer"
               /\ resp'.id = task.id
               /\ resp'.raised = ""
               /\ \/ resp'.payload.type = "follow_up"
                  \/ /\ "fallback" \in DOMAIN resp'.payload
                     /\ resp'.payload.fallback
               /\ task.id \notin DOMAIN current_sessions'
               /\ task.id \notin DOMAIN sessions => task.id \notin DOMAIN sessions'
               /\ task.id \notin DOMAIN performance_cache
                    => task.id \notin DOMAIN performance_cache']_vars

(***************************************************************************)
(* Claims on the question a turn is processed against (checked under       *)
(* IsoSpec)                                                                *)
(***************************************************************************)
\* the question text of a payload: start_interview returns it under
\* "question", process_user_answer under "message"
ReturnedQuestion(payload) ==
    IF "question" \in DOMAIN payload THEN payload.question ELSE payload.message

\* C29: when a start_interview or process_user_answer call returns a
\* question, normally or as a fallback, and its session is held, the
\* session's last_question is the question text just returned.
C29_LastQuestionIsShown ==
    [][\A task \in InFlightTasks :
          (/\ tasks' = Finish(task)
           /\ resp'.op = task.op
           /\ resp'.id = task.id
           /\ resp'.raised = ""
           /\ task.id \in DOMAIN current_sessions')
            => /\ "last_question" \in DOMAIN current_sessions'[task.id]
               /\ current_sessions'[task.id].last_question
                     = ReturnedQuestion(resp'.payload)]_vars

====
